---- MODULE Spec2Model ----
(***************************************************************************)
(* Dot4Gravity board engine (dot4gravity/src/lib.rs): the game state, the  *)
(* transitions new_game, drop_bomb and drop_stone, and the win detector.   *)
(* Every operator below is named after the Rust item it is translated      *)
(* from.  A transition takes a GameState by value and returns              *)
(* Result<GameState, GameError>; here it returns a record                  *)
(* [err, state] with err = "Ok" on success.                                *)
(***************************************************************************)
EXTENDS Integers, Sequences, FiniteSets, TLC

\* ---------------------------------------------------------------- constants
INITIAL_SEED == 123456
INCREMENT == 74
MULTIPLIER == 75
MODULUS == 65536

BOARD_WIDTH == 10
BOARD_HEIGHT == 10
NUM_OF_PLAYERS == 2
NUM_OF_BOMBS_PER_PLAYER == 3
NUM_OF_BLOCKS == 10

NB_POINT_STONE == 1
NB_POINT_ENEMY_STONE_DESTROYED == 1

\* Option::None for Option<Player>, Option<PlayerIndex> and Option<Seed>.
NoPlayer == -1
NoIndex == -1
NoSeed == -1

\* The players of the tests (Player = u8).
ALICE == 11
BOB == 22
\* An account that plays in no game.
CHARLIE == 33
Players == {ALICE, BOB}
PlayerIndexes == 0 .. (NUM_OF_PLAYERS - 1)

Sides == {"North", "East", "South", "West"}
Rows == 0 .. (BOARD_HEIGHT - 1)
Cols == 0 .. (BOARD_WIDTH - 1)

\* ------------------------------------------------------------------- cells
\* enum Cell { Empty, Bomb([Option<PlayerIndex>; 2]), Block, Stone(PlayerIndex) }
Empty == [kind |-> "Empty", a |-> NoIndex, b |-> NoIndex]
Block == [kind |-> "Block", a |-> NoIndex, b |-> NoIndex]
Stone(player_index) == [kind |-> "Stone", a |-> player_index, b |-> NoIndex]
Bomb(first, second) == [kind |-> "Bomb", a |-> first, b |-> second]

cell_is_bomb_droppable(cell) == cell.kind \in {"Empty", "Bomb"}

\* cell_is_explodable without the test for Cell::Block.
cell_is_explodable_any(cell) == cell = cell

cell_is_explodable(cell) == cell # Block

cell_is_stone_droppable(cell) == cell.kind \notin {"Block", "Stone"}

\* ------------------------------------------------------------- coordinates
\* Coordinates are pairs <<row, col>> of u8 values.
Coordinates_new(row, col) == <<row, col>>

\* Bound::is_inside_board (trait of traits.rs; modelled from the specification).
is_inside_board(position) ==
    position[1] < BOARD_HEIGHT /\ position[2] < BOARD_WIDTH

\* u32 saturating_mul / saturating_add followed by % MODULUS.  MODULUS
\* divides 2^32, so below the saturation point the result only depends on
\* seed % MODULUS; from SaturationSeed on, 75 * seed + 74 exceeds u32::MAX
\* and the saturated value u32::MAX gives MODULUS - 1.
SaturationSeed == 57266230
linear_congruential_generator(seed) ==
    IF seed >= SaturationSeed
    THEN MODULUS - 1
    ELSE (MULTIPLIER * (seed % MODULUS) + INCREMENT) % MODULUS

\* Coordinates::random returning the seed of its first step.
Coordinates_random_first_step(seed) ==
    LET random_seed_1 == linear_congruential_generator(seed)
        random_seed_2 == linear_congruential_generator(random_seed_1)
    IN  << Coordinates_new(random_seed_1 % (BOARD_WIDTH - 1),
                           random_seed_2 % (BOARD_HEIGHT - 1)),
           random_seed_1 >>

\* Coordinates::random: returns <<coordinates, new seed>>.
Coordinates_random(seed) ==
    LET random_seed_1 == linear_congruential_generator(seed)
        random_seed_2 == linear_congruential_generator(random_seed_1)
    IN  << Coordinates_new(random_seed_1 % (BOARD_WIDTH - 1),
                           random_seed_2 % (BOARD_HEIGHT - 1)),
           random_seed_2 >>

is_opposite_cell(position, side) ==
    CASE side = "North" -> position[1] = BOARD_HEIGHT - 1
      [] side = "East"  -> position[2] = 0
      [] side = "South" -> position[1] = 0
      [] side = "West"  -> position[2] = BOARD_WIDTH - 1

bound_coordinates(side, position) ==
    CASE side = "North" -> Coordinates_new(0, position)
      [] side = "South" -> Coordinates_new(BOARD_HEIGHT - 1, position)
      [] side = "West"  -> Coordinates_new(position, 0)
      [] side = "East"  -> Coordinates_new(position, BOARD_WIDTH - 1)

\* u8::saturating_sub
saturating_sub(x, y) == IF x < y THEN 0 ELSE x - y

\* ------------------------------------------------------------------- board
\* Board { cells: [[Cell; BOARD_WIDTH]; BOARD_HEIGHT] }, indexed cells[row][col].
Board_new == [row \in Rows |-> [col \in Cols |-> Empty]]

get_cell(board, position) == board[position[1]][position[2]]

update_cell(board, position, cell) ==
    [board EXCEPT ![position[1]][position[2]] = cell]

board_is_bomb_droppable(board, position) ==
    is_inside_board(position) /\ cell_is_bomb_droppable(get_cell(board, position))

board_is_explodable(board, position) ==
    is_inside_board(position) /\ cell_is_explodable(get_cell(board, position))

board_is_stone_droppable(board, position) ==
    is_inside_board(position) /\ cell_is_stone_droppable(get_cell(board, position))

player_index_stone(board, position) ==
    IF ~is_inside_board(position)
    THEN NoIndex
    ELSE IF get_cell(board, position).kind = "Stone"
         THEN get_cell(board, position).a
         ELSE NoIndex

\* The nine (row, col) offsets, in the order of the source array.
offsets ==
    << <<0, 0>>, <<-1, -1>>, <<0, -1>>, <<1, -1>>, <<1, 0>>,
       <<1, 1>>, <<0, 1>>, <<-1, 1>>, <<-1, 0>> >>

\* (offset + coordinate as i8) as u8: a negative sum wraps to 255.
explodable_coordinate(position) ==
    [i \in 1 .. Len(offsets) |->
        Coordinates_new((offsets[i][1] + position[1]) % 256,
                        (offsets[i][2] + position[2]) % 256)]

\* for_each over the nine coordinates: a coordinate that is inside the
\* board and explodable is updated to Empty.  The coordinates inside the
\* board are pairwise distinct, so the updates do not depend on their order.
explode_bomb_every_cell(board, bomb_position) ==
    LET coordinates == explodable_coordinate(bomb_position)
        exploded == {coordinates[i] : i \in {j \in DOMAIN coordinates :
                                       is_inside_board(coordinates[j])}}
    IN  [row \in Rows |-> [col \in Cols |->
            IF Coordinates_new(row, col) \in exploded
            THEN Empty
            ELSE board[row][col]]]

explode_bomb(board, bomb_position) ==
    LET coordinates == explodable_coordinate(bomb_position)
        exploded == {coordinates[i] : i \in {j \in DOMAIN coordinates :
                                       board_is_explodable(board, coordinates[j])}}
    IN  [row \in Rows |-> [col \in Cols |->
            IF Coordinates_new(row, col) \in exploded
            THEN Empty
            ELSE board[row][col]]]

\* -------------------------------------------------------------- game state
\* Option<LastMove<Player>>::None
NoMove == [player |-> NoPlayer, side |-> "none", position |-> -1]

LastMove_new(player, side, position) ==
    [player |-> player, side |-> side, position |-> position]

\* is_all_bomb_dropped with any in place of all.
is_all_bomb_dropped_any(game_state) ==
    \E i \in DOMAIN game_state.bombs : game_state.bombs[i][2] = 0

\* GameState<Player>: players, bombs and scores are arrays of length
\* NUM_OF_PLAYERS (indexed from 1 here, from 0 in the source); bombs and
\* scores hold (player, value) pairs.
is_all_bomb_dropped(game_state) ==
    \A i \in DOMAIN game_state.bombs : game_state.bombs[i][2] = 0

\* Option<u8>: NoIndex stands for None.
get_player_bombs(game_state, player) ==
    IF \E i \in DOMAIN game_state.bombs : game_state.bombs[i][1] = player
    THEN LET first == CHOOSE i \in DOMAIN game_state.bombs :
                        /\ game_state.bombs[i][1] = player
                        /\ \A j \in DOMAIN game_state.bombs :
                              game_state.bombs[j][1] = player => i <= j
         IN  game_state.bombs[first][2]
    ELSE NoIndex

is_all_player_bomb_dropped(game_state, player) ==
    get_player_bombs(game_state, player) = 0

\* decrease_player_bombs without the test for the player.
decrease_player_bombs_of_all(game_state, player) ==
    [game_state EXCEPT !.bombs =
        [i \in DOMAIN game_state.bombs |->
            <<game_state.bombs[i][1], saturating_sub(game_state.bombs[i][2], 1)>>]]

decrease_player_bombs(game_state, player) ==
    [game_state EXCEPT !.bombs =
        [i \in DOMAIN game_state.bombs |->
            IF game_state.bombs[i][1] = player
            THEN <<game_state.bombs[i][1], game_state.bombs[i][2] - 1>>
            ELSE game_state.bombs[i]]]

get_player_score(game_state, player) ==
    LET first == CHOOSE i \in DOMAIN game_state.scores :
                    /\ game_state.scores[i][1] = player
                    /\ \A j \in DOMAIN game_state.scores :
                          game_state.scores[j][1] = player => i <= j
    IN  game_state.scores[first][2]

increase_player_score(game_state, player, add_score) ==
    [game_state EXCEPT !.scores =
        [i \in DOMAIN game_state.scores |->
            IF game_state.scores[i][1] = player
            THEN <<game_state.scores[i][1], game_state.scores[i][2] + add_score>>
            ELSE game_state.scores[i]]]

is_player_turn(game_state, player) == game_state.next_player = player

\* Index (from 0) of the player in game_state.players; the source panics
\* (expect) when the player is not one of them: NoIndex stands for that.
player_index(game_state, player) ==
    IF \E i \in DOMAIN game_state.players : game_state.players[i] = player
    THEN (CHOOSE i \in DOMAIN game_state.players :
            /\ game_state.players[i] = player
            /\ \A j \in DOMAIN game_state.players :
                  game_state.players[j] = player => i <= j) - 1
    ELSE NoIndex

\* for_each over the nine coordinates, counting those holding a stone of
\* another player index than the player's.
adjacent_opponent_stone(game_state, position, player) ==
    LET coordinates == explodable_coordinate(position)
        own_index == player_index(game_state, player)
    IN  Cardinality({i \in DOMAIN coordinates :
            /\ player_index_stone(game_state.board, coordinates[i]) # NoIndex
            /\ player_index_stone(game_state.board, coordinates[i]) # own_index})

\* next_player without the step to the following index.
next_player_same(game_state) ==
    LET current_player_index == player_index(game_state, game_state.next_player)
    IN  game_state.players[(current_player_index % NUM_OF_PLAYERS) + 1]

\* GameState::next_player(): the player after game_state.next_player.
next_player(game_state) ==
    LET current_player_index == player_index(game_state, game_state.next_player)
    IN  game_state.players[((current_player_index + 1) % NUM_OF_PLAYERS) + 1]

\* ------------------------------------------------------------ preconditions
\* can_drop_bomb without the test of the bombs the player has left.
can_drop_bomb_any_count(game_state, position, player) ==
    IF game_state.phase # "Bomb" THEN "DroppedBombOutsideBombPhase"
    ELSE IF game_state.winner # NoPlayer THEN "GameAlreadyFinished"
    ELSE IF ~board_is_bomb_droppable(game_state.board, position) THEN "InvalidBombPosition"
    ELSE "Ok"

can_drop_bomb(game_state, position, player) ==
    IF game_state.phase # "Bomb" THEN "DroppedBombOutsideBombPhase"
    ELSE IF game_state.winner # NoPlayer THEN "GameAlreadyFinished"
    ELSE IF is_all_player_bomb_dropped(game_state, player) THEN "NoMoreBombsAvailable"
    ELSE IF ~board_is_bomb_droppable(game_state.board, position) THEN "InvalidBombPosition"
    ELSE "Ok"

\* can_drop_stone testing the turn before the phase and the winner.
can_drop_stone_turn_first(game_state, side, position, player) ==
    IF ~is_player_turn(game_state, player) THEN "NotPlayerTurn"
    ELSE IF game_state.phase # "Play" THEN "DroppedStoneOutsidePlayPhase"
    ELSE IF game_state.winner # NoPlayer THEN "GameAlreadyFinished"
    ELSE IF ~board_is_stone_droppable(game_state.board, bound_coordinates(side, position))
         THEN "InvalidStonePosition"
    ELSE "Ok"

\* can_drop_stone without the test for a winner.
can_drop_stone_no_winner_test(game_state, side, position, player) ==
    IF game_state.phase # "Play" THEN "DroppedStoneOutsidePlayPhase"
    ELSE IF ~is_player_turn(game_state, player) THEN "NotPlayerTurn"
    ELSE IF ~board_is_stone_droppable(game_state.board, bound_coordinates(side, position))
         THEN "InvalidStonePosition"
    ELSE "Ok"

can_drop_stone(game_state, side, position, player) ==
    IF game_state.phase # "Play" THEN "DroppedStoneOutsidePlayPhase"
    ELSE IF game_state.winner # NoPlayer THEN "GameAlreadyFinished"
    ELSE IF ~is_player_turn(game_state, player) THEN "NotPlayerTurn"
    ELSE IF ~board_is_stone_droppable(game_state.board, bound_coordinates(side, position))
         THEN "InvalidStonePosition"
    ELSE "Ok"

\* ---------------------------------------------------------------- new_game
\* The while loop of new_game: the set of block coordinates drawn and the
\* seed after the last draw.
RECURSIVE place_blocks(_, _, _)
place_blocks(blocks, remaining_blocks, seed) ==
    IF remaining_blocks > 0
    THEN LET random == Coordinates_random(seed)
         IN  IF random[1] \notin blocks
             THEN place_blocks(blocks \cup {random[1]}, remaining_blocks - 1,
                               random[2])
             ELSE place_blocks(blocks, remaining_blocks, random[2])
    ELSE <<blocks, seed>>

\* The board after board.update_cell(block_coordinates, Cell::Block) for
\* every block drawn.
new_game(player1, player2, seed) ==
    LET placed == place_blocks({}, NUM_OF_BLOCKS,
                               IF seed = NoSeed THEN INITIAL_SEED ELSE seed)
    IN  [seed |-> placed[2],
         board |-> [row \in Rows |-> [col \in Cols |->
                      IF Coordinates_new(row, col) \in placed[1]
                      THEN Block
                      ELSE Empty]],
         phase |-> "Bomb",
         winner |-> NoPlayer,
         next_player |-> player1,
         players |-> <<player1, player2>>,
         scores |-> << <<player1, 0>>, <<player2, 0>> >>,
         bombs |-> << <<player1, NUM_OF_BOMBS_PER_PLAYER>>,
                      <<player2, NUM_OF_BOMBS_PER_PLAYER>> >>,
         last_move |-> NoMove]

\* --------------------------------------------------------------- drop_bomb
Result(err, state) == [err |-> err, state |-> state]

\* bomb_dropped passing the turn to the following player, as drop_stone does.
bomb_dropped_next_turn(game_state, position, player, cell) ==
    LET decreased == decrease_player_bombs(
                        [game_state EXCEPT !.board = update_cell(@, position, cell)],
                        player)
        turned == [decreased EXCEPT !.next_player = next_player(decreased)]
    IN  IF is_all_bomb_dropped(turned)
        THEN [turned EXCEPT !.phase = "Play"]
        ELSE turned

bomb_dropped(game_state, position, player, cell) ==
    LET decreased == decrease_player_bombs(
                        [game_state EXCEPT !.board = update_cell(@, position, cell)],
                        player)
    IN  IF is_all_bomb_dropped(decreased)
        THEN [decreased EXCEPT !.phase = "Play"]
        ELSE decreased

\* drop_bomb without the test that the bomb in the cell is another player's.
drop_bomb_same_player(game_state, position, player) ==
    IF can_drop_bomb(game_state, position, player) # "Ok"
    THEN Result(can_drop_bomb(game_state, position, player), game_state)
    ELSE IF player_index(game_state, player) = NoIndex
    THEN Result("Panic", game_state)
    ELSE LET index == player_index(game_state, player)
             cell == get_cell(game_state.board, position)
         IN  IF cell = Empty
             THEN Result("Ok", bomb_dropped(game_state, position, player,
                                            Bomb(index, NoIndex)))
             ELSE IF cell.kind = "Bomb" /\ cell.a # NoIndex /\ cell.b = NoIndex
             THEN Result("Ok", bomb_dropped(game_state, position, player,
                                            Bomb(cell.a, index)))
             ELSE Result("InvalidBombPosition", game_state)

drop_bomb(game_state, position, player) ==
    IF can_drop_bomb(game_state, position, player) # "Ok"
    THEN Result(can_drop_bomb(game_state, position, player), game_state)
    ELSE IF player_index(game_state, player) = NoIndex
    THEN Result("Panic", game_state)
    ELSE LET index == player_index(game_state, player)
             cell == get_cell(game_state.board, position)
         IN  IF cell = Empty
             THEN Result("Ok", bomb_dropped(game_state, position, player,
                                            Bomb(index, NoIndex)))
             ELSE IF cell.kind = "Bomb" /\ cell.a # NoIndex /\ cell.b = NoIndex
             THEN IF cell.a # index
                  THEN Result("Ok", bomb_dropped(game_state, position, player,
                                                 Bomb(cell.a, index)))
                  ELSE Result("InvalidBombPosition", game_state)
             ELSE Result("InvalidBombPosition", game_state)

\* -------------------------------------------------------------- drop_stone
\* stone_exploded counting the opponent stones after the explosion.
stone_exploded_then_scored(game_state, player, coordinates) ==
    LET exploded == [game_state EXCEPT !.board = explode_bomb(@, coordinates)]
    IN  increase_player_score(exploded, player,
            NB_POINT_ENEMY_STONE_DESTROYED
                * adjacent_opponent_stone(exploded, coordinates, player))

\* The Bomb arm of the slide: score the opponent stones around, then explode.
stone_exploded(game_state, player, coordinates) ==
    LET scored == increase_player_score(game_state, player,
                      NB_POINT_ENEMY_STONE_DESTROYED
                          * adjacent_opponent_stone(game_state, coordinates, player))
    IN  [scored EXCEPT !.board = explode_bomb(@, coordinates)]

\* board.update_cell(coordinates, Cell::Stone(player_index))
stone_placed(game_state, coordinates, index) ==
    [game_state EXCEPT !.board = update_cell(@, coordinates, Stone(index))]

\* The four slides.  Each source loop visits the cells of the row or column
\* from the entry cell on and goes on only over an Empty cell that is not the
\* opposite cell: it acts on the first cell that is not Empty or is the
\* opposite cell, with the arm of that cell's kind.

\* Side::North: row goes up from 0.
north_loop(game_state, player, index, position) ==
    LET stops == {row \in Rows :
                    \/ get_cell(game_state.board, Coordinates_new(row, position)).kind # "Empty"
                    \/ is_opposite_cell(Coordinates_new(row, position), "North")}
        row == CHOOSE stop \in stops : \A other \in stops : stop <= other
        coordinates == Coordinates_new(row, position)
        cell == get_cell(game_state.board, coordinates)
    IN  CASE cell.kind = "Bomb" ->
               Result("Ok", stone_exploded(game_state, player, coordinates))
          [] cell.kind = "Empty" ->
               Result("Ok", stone_placed(game_state, coordinates, index))
          [] cell.kind = "Block" ->
               IF row > 0
               THEN Result("Ok", stone_placed(game_state, Coordinates_new(saturating_sub(coordinates[1], 1), coordinates[2]), index))
               ELSE Result("InvalidStonePosition", game_state)
          [] cell.kind = "Stone" ->
               IF row > 0
               THEN Result("Ok", stone_placed(game_state, Coordinates_new(saturating_sub(coordinates[1], 1), coordinates[2]), index))
               ELSE Result("InvalidStonePosition", game_state)

\* east_loop with the previous cell of the west slide (col - 1 instead of
\* col + 1) in the Block arm.
east_loop_west_offset(game_state, player, index, position) ==
    LET stops == {col \in Cols :
                    \/ get_cell(game_state.board, Coordinates_new(position, col)).kind # "Empty"
                    \/ is_opposite_cell(Coordinates_new(position, col), "East")}
        col == CHOOSE stop \in stops : \A other \in stops : stop >= other
        coordinates == Coordinates_new(position, col)
        cell == get_cell(game_state.board, coordinates)
    IN  CASE cell.kind = "Bomb" ->
               Result("Ok", stone_exploded(game_state, player, coordinates))
          [] cell.kind = "Empty" ->
               Result("Ok", stone_placed(game_state, coordinates, index))
          [] cell.kind = "Block" ->
               IF col < BOARD_WIDTH - 1
               THEN Result("Ok", stone_placed(game_state,
                        Coordinates_new(coordinates[1], saturating_sub(coordinates[2], 1)),
                        index))
               ELSE Result("InvalidStonePosition", game_state)
          [] cell.kind = "Stone" ->
               IF col < BOARD_WIDTH - 1
               THEN Result("Ok", stone_placed(game_state, Coordinates_new(coordinates[1], coordinates[2] + 1), index))
               ELSE Result("InvalidStonePosition", game_state)

\* Side::East: col goes down from BOARD_WIDTH - 1.
east_loop(game_state, player, index, position) ==
    LET stops == {col \in Cols :
                    \/ get_cell(game_state.board, Coordinates_new(position, col)).kind # "Empty"
                    \/ is_opposite_cell(Coordinates_new(position, col), "East")}
        col == CHOOSE stop \in stops : \A other \in stops : stop >= other
        coordinates == Coordinates_new(position, col)
        cell == get_cell(game_state.board, coordinates)
    IN  CASE cell.kind = "Bomb" ->
               Result("Ok", stone_exploded(game_state, player, coordinates))
          [] cell.kind = "Empty" ->
               Result("Ok", stone_placed(game_state, coordinates, index))
          [] cell.kind = "Block" ->
               IF col < BOARD_WIDTH - 1
               THEN Result("Ok", stone_placed(game_state, Coordinates_new(coordinates[1], coordinates[2] + 1), index))
               ELSE Result("InvalidStonePosition", game_state)
          [] cell.kind = "Stone" ->
               IF col < BOARD_WIDTH - 1
               THEN Result("Ok", stone_placed(game_state, Coordinates_new(coordinates[1], coordinates[2] + 1), index))
               ELSE Result("InvalidStonePosition", game_state)

\* Side::South: row goes down from BOARD_HEIGHT - 1.
south_loop(game_state, player, index, position) ==
    LET stops == {row \in Rows :
                    \/ get_cell(game_state.board, Coordinates_new(row, position)).kind # "Empty"
                    \/ is_opposite_cell(Coordinates_new(row, position), "South")}
        row == CHOOSE stop \in stops : \A other \in stops : stop >= other
        coordinates == Coordinates_new(row, position)
        cell == get_cell(game_state.board, coordinates)
    IN  CASE cell.kind = "Bomb" ->
               Result("Ok", stone_exploded(game_state, player, coordinates))
          [] cell.kind = "Empty" ->
               Result("Ok", stone_placed(game_state, coordinates, index))
          [] cell.kind = "Block" ->
               IF row < BOARD_HEIGHT - 1
               THEN Result("Ok", stone_placed(game_state, Coordinates_new(coordinates[1] + 1, coordinates[2]), index))
               ELSE Result("InvalidStonePosition", game_state)
          [] cell.kind = "Stone" ->
               IF row < BOARD_HEIGHT - 1
               THEN Result("Ok", stone_placed(game_state, Coordinates_new(coordinates[1] + 1, coordinates[2]), index))
               ELSE Result("InvalidStonePosition", game_state)

\* west_loop going on without a stone when a Stone lies in the far-edge cell.
west_loop_silent(game_state, player, index, position) ==
    LET stops == {col \in Cols :
                    \/ get_cell(game_state.board, Coordinates_new(position, col)).kind # "Empty"
                    \/ is_opposite_cell(Coordinates_new(position, col), "West")}
        col == CHOOSE stop \in stops : \A other \in stops : stop <= other
        coordinates == Coordinates_new(position, col)
        cell == get_cell(game_state.board, coordinates)
    IN  CASE cell.kind = "Bomb" ->
               Result("Ok", stone_exploded(game_state, player, coordinates))
          [] cell.kind = "Empty" ->
               Result("Ok", stone_placed(game_state, coordinates, index))
          [] cell.kind = "Block" ->
               IF col > 0
               THEN Result("Ok", stone_placed(game_state, Coordinates_new(coordinates[1], saturating_sub(coordinates[2], 1)), index))
               ELSE Result("InvalidStonePosition", game_state)
          [] cell.kind = "Stone" ->
               IF col < BOARD_WIDTH - 1
               THEN Result("Ok", stone_placed(game_state, Coordinates_new(coordinates[1], saturating_sub(coordinates[2], 1)), index))
               ELSE Result("Ok", game_state)

\* Side::West: col goes up from 0.
west_loop(game_state, player, index, position) ==
    LET stops == {col \in Cols :
                    \/ get_cell(game_state.board, Coordinates_new(position, col)).kind # "Empty"
                    \/ is_opposite_cell(Coordinates_new(position, col), "West")}
        col == CHOOSE stop \in stops : \A other \in stops : stop <= other
        coordinates == Coordinates_new(position, col)
        cell == get_cell(game_state.board, coordinates)
    IN  CASE cell.kind = "Bomb" ->
               Result("Ok", stone_exploded(game_state, player, coordinates))
          [] cell.kind = "Empty" ->
               Result("Ok", stone_placed(game_state, coordinates, index))
          [] cell.kind = "Block" ->
               IF col > 0
               THEN Result("Ok", stone_placed(game_state, Coordinates_new(coordinates[1], saturating_sub(coordinates[2], 1)), index))
               ELSE Result("InvalidStonePosition", game_state)
          [] cell.kind = "Stone" ->
               IF col < BOARD_WIDTH - 1
               THEN Result("Ok", stone_placed(game_state, Coordinates_new(coordinates[1], saturating_sub(coordinates[2], 1)), index))
               ELSE Result("InvalidStonePosition", game_state)

\* --------------------------------------------------------- check_winner
\* is_square without the test of the diagonal cell.
is_square_of_three(board, row, col) ==
    LET cell == get_cell(board, Coordinates_new(row, col))
    IN  /\ cell.kind = "Stone"
        /\ cell = get_cell(board, Coordinates_new(row, col + 1))
        /\ cell = get_cell(board, Coordinates_new(row + 1, col))

\* True when the cell at (row, col) is a stone and the three cells right,
\* below and diagonal of it are equal to it.
is_square(board, row, col) ==
    LET cell == get_cell(board, Coordinates_new(row, col))
    IN  /\ cell.kind = "Stone"
        /\ cell = get_cell(board, Coordinates_new(row, col + 1))
        /\ cell = get_cell(board, Coordinates_new(row + 1, col))
        /\ cell = get_cell(board, Coordinates_new(row + 1, col + 1))

\* Player index of the square with top-left corner (row, col), or NoIndex.
square_owner(board, row, col) ==
    IF is_square(board, row, col)
    THEN get_cell(board, Coordinates_new(row, col)).a
    ELSE NoIndex

\* The inner loop (for col in 0..BOARD_WIDTH - 1) on one row, given the
\* square counters and the winner found so far; squares is indexed by player
\* index + 1.  The loop counts the squares of the row from the left and
\* breaks at the first one that brings its owner's counter to 3 or more,
\* setting the winner; the break leaves this loop only.
scan_row(board, players, row, found) ==
    LET counter(index, col) ==
            found.squares[index + 1]
              + Cardinality({c \in 0 .. col : square_owner(board, row, c) = index})
        breaks == {col \in 0 .. (BOARD_WIDTH - 2) :
                      /\ square_owner(board, row, col) # NoIndex
                      /\ counter(square_owner(board, row, col), col) >= 3}
        last == IF breaks = {}
                THEN BOARD_WIDTH - 2
                ELSE CHOOSE col \in breaks : \A other \in breaks : col <= other
    IN  [squares |-> [i \in 1 .. NUM_OF_PLAYERS |-> counter(i - 1, last)],
         winner |-> IF breaks = {}
                    THEN found.winner
                    ELSE players[square_owner(board, row, last) + 1]]

\* The outer loop (for row in 0..BOARD_HEIGHT - 1) from row on.
RECURSIVE scan_rows(_, _, _, _)
scan_rows(board, players, row, found) ==
    IF row >= BOARD_HEIGHT - 1
    THEN found
    ELSE LET scanned == scan_row(board, players, row, found)
         IN  IF scanned.winner = found.winner /\ scanned.squares = found.squares
             THEN scan_rows(board, players, row + 1, found)
             ELSE scan_rows(board, players, row + 1, scanned)

check_winner_player(game_state) ==
    IF game_state.winner # NoPlayer
    THEN game_state
    ELSE [game_state EXCEPT !.winner =
            scan_rows(game_state.board, game_state.players, 0,
                      [squares |-> [i \in 1 .. NUM_OF_PLAYERS |-> 0],
                       winner |-> game_state.winner]).winner]

slide(game_state, player, index, side, position) ==
    CASE side = "North" -> north_loop(game_state, player, index, position)
      [] side = "East"  -> east_loop(game_state, player, index, position)
      [] side = "South" -> south_loop(game_state, player, index, position)
      [] side = "West"  -> west_loop(game_state, player, index, position)

\* The bookkeeping after the match on side.
stone_dropped_unrecorded(game_state, player, side, position) ==
    LET scored == increase_player_score(game_state, player, NB_POINT_STONE)
        turned == [scored EXCEPT !.next_player = next_player(scored)]
    IN  check_winner_player(turned)

stone_dropped(game_state, player, side, position) ==
    LET scored == increase_player_score(game_state, player, NB_POINT_STONE)
        moved == [scored EXCEPT !.last_move = LastMove_new(player, side, position)]
        turned == [moved EXCEPT !.next_player = next_player(moved)]
    IN  check_winner_player(turned)

drop_stone(game_state, player, side, position) ==
    IF can_drop_stone(game_state, side, position, player) # "Ok"
    THEN Result(can_drop_stone(game_state, side, position, player), game_state)
    ELSE IF player_index(game_state, player) = NoIndex
    THEN Result("Panic", game_state)
    ELSE LET slid == slide(game_state, player, player_index(game_state, player),
                           side, position)
         IN  IF slid.err # "Ok"
             THEN Result(slid.err, game_state)
             ELSE Result("Ok", stone_dropped(slid.state, player, side, position))

\* =============================================================== BattleMogs
\* ------------------------------------------------------------- error codes
ASSET_NOT_FOUND == 0
MOGWAI_LIMIT_REACHED == 1
PLAYER_ALREADY_HAS_ACHIEVEMENT_TABLE == 2
ASSET_IS_NOT_MOGWAI == 3
ASSET_IS_NOT_ACHIEVEMENT_TABLE == 4
CANNOT_USE_SAME_ASSET_FOR_BREEDING == 5
MOGWAI_STILL_IN_BRED_PHASE == 6
MOGWAI_NOT_IN_BRED_PHASE == 7
MOGWAI_HAS_INVALID_RARITY == 8
ASSET_COULD_NOT_RECEIVE_FUNDS == 100
ASSET_COULD_NOT_WITHDRAW_FUNDS == 101

\* Result<_, TransitionError>: Ok, TransitionError::AssetOwnership, or
\* TransitionError::Transition { code }.
NoCode == -1
Ok == [kind |-> "Ok", code |-> NoCode]
AssetOwnership == [kind |-> "AssetOwnership", code |-> NoCode]
Transition(code) == [kind |-> "Transition", code |-> code]

\* BattleMogsError::from(code)
BattleMogsError_from(code) == Transition(code)

\* ------------------------------------------------------ achievement states
\* AchievementState::InProgress { current, target } and ::Completed.
AchievementState_InProgress(current, target) ==
    [kind |-> "InProgress", current |-> current, target |-> target]

Completed == [kind |-> "Completed"]

\* The call did not return: an arithmetic overflow panicked.
Panicked == [kind |-> "Panicked"]

\* u16::MAX
U16_MAX == 65535

\* u16::saturating_add
saturating_add(a, b) == IF a + b > U16_MAX THEN U16_MAX ELSE a + b

\* u16 `+`: with the overflow checks of the build on, a sum beyond u16::MAX
\* panics; with the checks off it wraps.  U16_MAX + 1 stands for the panic.
checked_or_wrapping_add(a, b, overflow_checks) ==
    IF a + b > U16_MAX
    THEN IF overflow_checks THEN U16_MAX + 1 ELSE (a + b) % (U16_MAX + 1)
    ELSE a + b

\* AchievementState::increase_by
increase_by(state, amount) ==
    IF state.kind = "InProgress"
    THEN LET new_current == saturating_add(state.current, amount)
         IN  IF new_current >= state.target
             THEN Completed
             ELSE AchievementState_InProgress(new_current, state.target)
    ELSE Completed

\* AchievementState::new
AchievementState_new(target) == AchievementState_InProgress(0, target)

\* AchievementState::update
update(state, amount, overflow_checks) ==
    IF state.kind = "InProgress"
    THEN LET new_current ==
                 checked_or_wrapping_add(state.current, amount, overflow_checks)
         IN  IF new_current > U16_MAX
             THEN Panicked
             ELSE IF new_current >= state.target
             THEN Completed
             ELSE AchievementState_InProgress(new_current, state.target)
    ELSE Completed

\* No achievement state under update: the placeholder of achievement.
NoAchievement ==
    [op |-> "None", before |-> Completed, amount |-> 0, state |-> Completed,
     updates |-> 0]

\* ------------------------------------------------------------------ assets
\* RarityType and PhaseType, by their discriminants.
Common == 0
Uncommon == 1
Rare == 2
Epic == 3
Legendary == 4
Mythical == 5
RarityTypes == Common .. Mythical

PhaseNone == 0
Bred == 1
Hatched == 2
Matured == 3
Mastered == 4
Exalted == 5
PhaseTypes == PhaseNone .. Exalted

\* MogwaiGeneration, by its discriminant First = 1 .. Sixteenth = 16.
First == 1
Sixteenth == 16
MogwaiGenerations == First .. Sixteenth

\* BattleMogsAsset { id, genesis, variant }: the fields of the Mogwai variant
\* (dna, generation, rarity, phase) are fields of the record; the two rows
\* of 32 bytes of dna are kept as one number.
Mogwai(id, genesis, dna, generation, rarity, phase) ==
    [id |-> id, genesis |-> genesis, variant |-> "Mogwai", dna |-> dna,
     generation |-> generation, rarity |-> rarity, phase |-> phase]

\* The AchievementTable variant: table holds the five achievement states.
AchievementTable(id, genesis, table) ==
    [id |-> id, genesis |-> genesis, variant |-> "AchievementTable",
     table |-> table]

\* BattleMogsTransitionConfig and its defaults.
DEFAULT_MAX_MOGWAIS == 10
DEFAULT_TARGET == 100

BattleMogsTransitionConfig_default ==
    [max_mogwais |-> DEFAULT_MAX_MOGWAIS,
     target_egg_hatcher |-> DEFAULT_TARGET,
     target_sacrificer |-> DEFAULT_TARGET,
     target_morpheus |-> DEFAULT_TARGET,
     target_legend_breeder |-> DEFAULT_TARGET,
     target_promiscuous |-> DEFAULT_TARGET]

\* The table register_player builds from a configuration.
NewTable(config) ==
    [egg_hatcher |-> AchievementState_InProgress(0, config.target_egg_hatcher),
     sacrificer |-> AchievementState_InProgress(0, config.target_sacrificer),
     morpheus |-> AchievementState_InProgress(0, config.target_morpheus),
     legend_breeder |->
         AchievementState_InProgress(0, config.target_legend_breeder),
     promiscuous |-> AchievementState_InProgress(0, config.target_promiscuous)]

\* impl From<u16> for MogwaiGeneration: the generation of that value, First
\* for every other number.
MogwaiGeneration_from(num) == IF num \in First .. Sixteenth THEN num ELSE First

\* impl From<u8> for MogwaiGeneration
MogwaiGeneration_from_u8(num) == MogwaiGeneration_from(num)

\* coerce_from with the default of From<u16> for the numbers above 16.
coerce_from_default(num) ==
    IF num = 0
    THEN First
    ELSE MogwaiGeneration_from(num)

\* MogwaiGeneration::coerce_from(num: u16)
coerce_from(num) ==
    IF num = 0
    THEN First
    ELSE IF num \in 1 .. 16
    THEN MogwaiGeneration_from(num)
    ELSE Sixteenth

\* RarityType::from(num)
RarityType_from(num) == IF num \in 0 .. 5 THEN num ELSE Common

\* Balances are counted in MILLIMOGS (config.rs: 1_000_000_000 of the
\* fund's smallest unit), which keeps the prices within the integers of the
\* model checker; every price of Pricing is a whole number of MILLIMOGS.
MILLIMOGS == 1

\* Pricing::intrinsic_return
intrinsic_return(phase) ==
    CASE phase = PhaseNone -> 0
      [] phase = Bred -> 20 * MILLIMOGS
      [] phase = Hatched -> 5 * MILLIMOGS
      [] phase = Matured -> 3 * MILLIMOGS
      [] phase = Mastered -> 2 * MILLIMOGS
      [] phase = Exalted -> MILLIMOGS

\* Pricing::pairing
pairing(rarity1, rarity2) ==
    LET rarity_sum == rarity1 + rarity2
    IN  CASE rarity_sum = 0 -> 10 * MILLIMOGS
          [] rarity_sum = 1 -> 100 * MILLIMOGS
          [] rarity_sum = 2 -> 200 * MILLIMOGS
          [] rarity_sum = 3 -> 300 * MILLIMOGS
          [] rarity_sum = 4 -> 400 * MILLIMOGS
          [] rarity_sum = 5 -> 500 * MILLIMOGS
          [] rarity_sum = 6 -> 1000 * MILLIMOGS
          [] rarity_sum = 7 -> 1500 * MILLIMOGS
          [] rarity_sum = 8 -> 2000 * MILLIMOGS
          [] OTHER -> 10000 * MILLIMOGS

\* Balance::checked_div(..).unwrap_or(zero)
checked_div_or_zero(a, b) == IF b = 0 THEN 0 ELSE a \div b

\* No asset under an id.
NoAsset == [variant |-> "None"]

is_mogwai(asset) == asset.variant = "Mogwai"

is_achievement(asset) == asset.variant = "AchievementTable"

\* TransitionOutput
Minted(asset) == [kind |-> "Minted", id |-> asset.id, asset |-> asset]
Mutated(id, asset) == [kind |-> "Mutated", id |-> id, asset |-> asset]
Consumed(id) == [kind |-> "Consumed", id |-> id, asset |-> NoAsset]

\* GameEventType::time_till
time_till_as_duration(game_type) ==
    CASE game_type = "Hatch" -> 0
      [] game_type = "Default" -> 0

time_till(game_type) ==
    CASE game_type = "Hatch" -> 100
      [] game_type = "Default" -> 0

\* -------------------------------------------------------------------- host
\* The Sage API the transitions consume.  host.assets, host.owners and
\* host.funds map an asset id to the asset, its owner and the balance of its
\* escrow in the payment fund; host.balances maps an account to its balance
\* in that fund; host.height is the current block number.
Sage_ensure_ownership(h, owner, asset_id) ==
    /\ asset_id \in DOMAIN h.assets
    /\ h.assets[asset_id] # NoAsset
    /\ h.owners[asset_id] = owner

Sage_get_asset(h, asset_id) ==
    IF asset_id \in DOMAIN h.assets THEN h.assets[asset_id] ELSE NoAsset

Sage_inspect_asset_funds(h, asset_id) ==
    IF asset_id \in DOMAIN h.funds THEN h.funds[asset_id] ELSE 0

Sage_get_current_block_number(h) == h.height

Sage_get_transition_config(h) == h.config

\* The ids of the assets of an account.
Sage_iter_assets_from(h, account) ==
    { asset_id \in DOMAIN h.assets :
        h.assets[asset_id] # NoAsset /\ h.owners[asset_id] = account }

\* A balance operation of the host: it is refused (accepted = FALSE stands
\* for any refusal of the host) or moves the whole amount; ok tells which.
Sage_transfer_funds_from_asset(h, asset_id, to, amount, accepted) ==
    IF accepted /\ asset_id \in DOMAIN h.funds /\ h.funds[asset_id] >= amount
    THEN [ok |-> TRUE,
          host |-> [h EXCEPT !.funds[asset_id] = @ - amount,
                             !.balances[to] = @ + amount]]
    ELSE [ok |-> FALSE, host |-> h]

Sage_deposit_funds_to_asset(h, asset_id, from, amount, accepted) ==
    IF accepted /\ asset_id \in DOMAIN h.funds /\ h.balances[from] >= amount
    THEN [ok |-> TRUE,
          host |-> [h EXCEPT !.funds[asset_id] = @ + amount,
                             !.balances[from] = @ - amount]]
    ELSE [ok |-> FALSE, host |-> h]

\* The host commits an output list: a Minted asset is stored for the
\* account, a Mutated asset replaces the stored one, a Consumed asset is
\* removed.
commit_output(h, account, output) ==
    CASE output.kind = "Minted" ->
            [h EXCEPT !.assets[output.id] = output.asset,
                      !.owners[output.id] = account]
      [] output.kind = "Mutated" ->
            [h EXCEPT !.assets[output.id] = output.asset]
      [] output.kind = "Consumed" ->
            [h EXCEPT !.assets[output.id] = NoAsset]

RECURSIVE commit_outputs(_, _, _)
commit_outputs(h, account, outputs) ==
    IF outputs = <<>>
    THEN h
    ELSE commit_outputs(commit_output(h, account, Head(outputs)), account,
                        Tail(outputs))

\* ------------------------------------------------------ transition helpers
\* What a transition returns and does: the error (Ok when it returns an
\* output list), the outputs, the host after the balance operations that
\* succeeded, and those operations in order.
Returned(err, outputs, h, moved) ==
    [err |-> err, outputs |-> outputs, host |-> h, moved |-> moved]

\* Result<BattleMogsAsset, TransitionError>
Found(err, asset) == [err |-> err, asset |-> asset]

ensure_ownership(h, owner, mogwai_id) ==
    IF Sage_ensure_ownership(h, owner, mogwai_id) THEN Ok ELSE AssetOwnership

ensure_mogwai(asset) ==
    IF is_mogwai(asset) THEN Ok ELSE Transition(ASSET_IS_NOT_MOGWAI)

as_mogwai(asset) ==
    IF asset.variant = "Mogwai" THEN Ok ELSE Transition(ASSET_IS_NOT_MOGWAI)

\* get_owned_mogwai looking at the kind of the asset before its owner.
get_owned_mogwai_kind_first(h, owner, mogwai_id) ==
    IF Sage_get_asset(h, mogwai_id) # NoAsset
          /\ ensure_mogwai(Sage_get_asset(h, mogwai_id)) # Ok
    THEN Found(ensure_mogwai(Sage_get_asset(h, mogwai_id)), NoAsset)
    ELSE IF ensure_ownership(h, owner, mogwai_id) # Ok
    THEN Found(ensure_ownership(h, owner, mogwai_id), NoAsset)
    ELSE IF Sage_get_asset(h, mogwai_id) = NoAsset
    THEN Found(Transition(ASSET_NOT_FOUND), NoAsset)
    ELSE Found(Ok, Sage_get_asset(h, mogwai_id))

get_owned_mogwai(h, owner, mogwai_id) ==
    IF ensure_ownership(h, owner, mogwai_id) # Ok
    THEN Found(ensure_ownership(h, owner, mogwai_id), NoAsset)
    ELSE IF Sage_get_asset(h, mogwai_id) = NoAsset
    THEN Found(Transition(ASSET_NOT_FOUND), NoAsset)
    ELSE IF ensure_mogwai(Sage_get_asset(h, mogwai_id)) # Ok
    THEN Found(ensure_mogwai(Sage_get_asset(h, mogwai_id)), NoAsset)
    ELSE Found(Ok, Sage_get_asset(h, mogwai_id))

get_mogwai(h, mogwai_id) ==
    IF Sage_get_asset(h, mogwai_id) = NoAsset
    THEN Found(Transition(ASSET_NOT_FOUND), NoAsset)
    ELSE IF ensure_mogwai(Sage_get_asset(h, mogwai_id)) # Ok
    THEN Found(ensure_mogwai(Sage_get_asset(h, mogwai_id)), NoAsset)
    ELSE Found(Ok, Sage_get_asset(h, mogwai_id))

\* Sage::iter_assets_from(account).filter(is_mogwai).count()
mogwai_count(h, account) ==
    Cardinality({ asset_id \in Sage_iter_assets_from(h, account) :
                    is_mogwai(h.assets[asset_id]) })

ensure_not_max_mogwais(h, account) ==
    IF mogwai_count(h, account) <= Sage_get_transition_config(h).max_mogwais
    THEN Ok
    ELSE Transition(MOGWAI_LIMIT_REACHED)

\* ensure_has_not_achievement_table looking at the mogwais only.
ensure_has_not_achievement_table_of_mogwais(h, account) ==
    LET has_achievement_table ==
            \E asset_id \in Sage_iter_assets_from(h, account) :
                is_mogwai(h.assets[asset_id]) /\ is_achievement(h.assets[asset_id])
    IN  IF ~has_achievement_table
        THEN Ok
        ELSE Transition(PLAYER_ALREADY_HAS_ACHIEVEMENT_TABLE)

ensure_has_not_achievement_table(h, account) ==
    LET has_achievement_table ==
            \E asset_id \in Sage_iter_assets_from(h, account) :
                is_achievement(h.assets[asset_id])
    IN  IF ~has_achievement_table
        THEN Ok
        ELSE Transition(PLAYER_ALREADY_HAS_ACHIEVEMENT_TABLE)

inspect_asset_funds(h, asset_id) == Sage_inspect_asset_funds(h, asset_id)

\* The result and the host after the call.
deposit_funds_to_asset(h, asset_id, from, amount, accepted) ==
    LET done == Sage_deposit_funds_to_asset(h, asset_id, from, amount, accepted)
    IN  [err |-> IF done.ok
                 THEN Ok
                 ELSE Transition(ASSET_COULD_NOT_RECEIVE_FUNDS),
         host |-> done.host]

withdraw_funds_from_asset(h, asset_id, to, amount, accepted) ==
    LET done == Sage_transfer_funds_from_asset(h, asset_id, to, amount, accepted)
    IN  [err |-> IF done.ok
                 THEN Ok
                 ELSE Transition(ASSET_COULD_NOT_WITHDRAW_FUNDS),
         host |-> done.host]

\* A balance operation that succeeded.
Withdrawn(asset_id, to, amount) ==
    [op |-> "withdraw", asset |-> asset_id, account |-> to, amount |-> amount]

Deposited(asset_id, from, amount) ==
    [op |-> "deposit", asset |-> asset_id, account |-> from, amount |-> amount]

\* ------------------------------------------------------------------- hatch
\* hatch_mogwai with a timer that needs one block more.
hatch_mogwai_after_timer(h, owner, mogwai_id, dna, rarity) ==
    LET owned == get_owned_mogwai(h, owner, mogwai_id)
        asset == owned.asset
        block_number == Sage_get_current_block_number(h)
        time_till_hatch == time_till("Hatch")
    IN  IF owned.err # Ok
        THEN Returned(owned.err, <<>>, h, <<>>)
        ELSE IF ~(saturating_sub(block_number, asset.genesis) > time_till_hatch)
        THEN Returned(BattleMogsError_from(ASSET_COULD_NOT_RECEIVE_FUNDS), <<>>, h, <<>>)
        ELSE IF as_mogwai(asset) # Ok
        THEN Returned(as_mogwai(asset), <<>>, h, <<>>)
        ELSE IF ~(asset.phase = Bred)
        THEN Returned(BattleMogsError_from(MOGWAI_NOT_IN_BRED_PHASE), <<>>, h, <<>>)
        ELSE Returned(Ok,
                      << Mutated(mogwai_id,
                                 [asset EXCEPT !.phase = Hatched,
                                               !.rarity = rarity,
                                               !.dna = dna]) >>,
                      h, <<>>)

\* dna and rarity stand for the results of Breeding::segmenting and
\* Breeding::bake on the hash drawn for b"mogwai_hatch".
hatch_mogwai(h, owner, mogwai_id, dna, rarity) ==
    LET owned == get_owned_mogwai(h, owner, mogwai_id)
        asset == owned.asset
        block_number == Sage_get_current_block_number(h)
        time_till_hatch == time_till("Hatch")
    IN  IF owned.err # Ok
        THEN Returned(owned.err, <<>>, h, <<>>)
        ELSE IF ~(saturating_sub(block_number, asset.genesis) >= time_till_hatch)
        THEN Returned(BattleMogsError_from(ASSET_COULD_NOT_RECEIVE_FUNDS), <<>>, h, <<>>)
        ELSE IF as_mogwai(asset) # Ok
        THEN Returned(as_mogwai(asset), <<>>, h, <<>>)
        ELSE IF ~(asset.phase = Bred)
        THEN Returned(BattleMogsError_from(MOGWAI_NOT_IN_BRED_PHASE), <<>>, h, <<>>)
        ELSE Returned(Ok,
                      << Mutated(mogwai_id,
                                 [asset EXCEPT !.phase = Hatched,
                                               !.rarity = rarity,
                                               !.dna = dna]) >>,
                      h, <<>>)

\* ---------------------------------------------------------- sacrifice into
\* The part of sacrifice_mogwai_into after the validations: gen_jump stands
\* for the result of Breeding::sacrifice.
sacrifice_funds_moved(h, owner, sacrificed_mogwai_id, into_mogwai_id, into_asset, gen_jump, withdraw_accepted, deposit_accepted) ==
    LET outputs == << Consumed(sacrificed_mogwai_id),
                      Mutated(into_mogwai_id, into_asset) >>
        sacrifice_funds == inspect_asset_funds(h, sacrificed_mogwai_id)
        withdrawn == withdraw_funds_from_asset(h, sacrificed_mogwai_id, owner,
                                               sacrifice_funds, withdraw_accepted)
        deposited == deposit_funds_to_asset(withdrawn.host, into_mogwai_id, owner,
                                            sacrifice_funds, deposit_accepted)
    IN  IF gen_jump > 0 /\ (into_asset.generation + gen_jump) <= 16
        THEN IF withdrawn.err # Ok
             THEN Returned(withdrawn.err, <<>>, withdrawn.host, <<>>)
             ELSE IF deposited.err # Ok
             THEN Returned(deposited.err, <<>>, deposited.host,
                           << Withdrawn(sacrificed_mogwai_id, owner, sacrifice_funds) >>)
             ELSE Returned(Ok, outputs, deposited.host,
                           << Withdrawn(sacrificed_mogwai_id, owner, sacrifice_funds),
                              Deposited(into_mogwai_id, owner, sacrifice_funds) >>)
        ELSE Returned(Ok, outputs, h, <<>>)

sacrifice_mogwai_into(h, owner, sacrificed_mogwai_id, into_mogwai_id, gen_jump, withdraw_accepted, deposit_accepted) ==
    LET sacrificed == get_owned_mogwai(h, owner, sacrificed_mogwai_id)
        into == get_owned_mogwai(h, owner, into_mogwai_id)
    IN  IF sacrificed.err # Ok
        THEN Returned(sacrificed.err, <<>>, h, <<>>)
        ELSE IF as_mogwai(sacrificed.asset) # Ok
        THEN Returned(as_mogwai(sacrificed.asset), <<>>, h, <<>>)
        ELSE IF ~(sacrificed.asset.phase # Bred)
        THEN Returned(BattleMogsError_from(MOGWAI_STILL_IN_BRED_PHASE), <<>>, h, <<>>)
        ELSE IF ~(sacrificed.asset.rarity # Common)
        THEN Returned(BattleMogsError_from(MOGWAI_HAS_INVALID_RARITY), <<>>, h, <<>>)
        ELSE IF into.err # Ok
        THEN Returned(into.err, <<>>, h, <<>>)
        ELSE IF as_mogwai(into.asset) # Ok
        THEN Returned(as_mogwai(into.asset), <<>>, h, <<>>)
        ELSE IF ~(into.asset.phase # Bred)
        THEN Returned(BattleMogsError_from(MOGWAI_STILL_IN_BRED_PHASE), <<>>, h, <<>>)
        ELSE IF ~(into.asset.rarity # Common)
        THEN Returned(BattleMogsError_from(MOGWAI_HAS_INVALID_RARITY), <<>>, h, <<>>)
        ELSE sacrifice_funds_moved(h, owner, sacrificed_mogwai_id, into_mogwai_id,
                                   into.asset, gen_jump, withdraw_accepted,
                                   deposit_accepted)

\* ---------------------------------------------------------------- register
\* table_id stands for the result of new_asset_id(b"mogwai_id", height).
register_player(h, player, table_id) ==
    IF ensure_has_not_achievement_table(h, player) # Ok
    THEN Returned(ensure_has_not_achievement_table(h, player), <<>>, h, <<>>)
    ELSE LET config == Sage_get_transition_config(h)
             block_number == Sage_get_current_block_number(h)
         IN  Returned(Ok,
                      << Minted(AchievementTable(table_id, block_number,
                                                 NewTable(config))) >>,
                      h, <<>>)

\* ------------------------------------------------------------------ create
\* create_mogwai minting in the default phase, and create_mogwai refusing
\* one mogwai early.
create_mogwai_default_phase(h, owner, mogwai_id, next, final_dna) ==
    IF ~(mogwai_count(h, owner) <= Sage_get_transition_config(h).max_mogwais)
    THEN Returned(Transition(1), <<>>, h, <<>>)
    ELSE LET rarity == RarityType_from(next.max_rarity * 16 + next.rarity)
             block_number == Sage_get_current_block_number(h)
         IN  Returned(Ok,
                      << Minted(Mogwai(mogwai_id, block_number, final_dna,
                                       next.next_gen, rarity, PhaseNone)) >>,
                      h, <<>>)

create_mogwai_over_limit(h, owner, mogwai_id, next, final_dna) ==
    IF ~(mogwai_count(h, owner) < Sage_get_transition_config(h).max_mogwais)
    THEN Returned(Transition(1), <<>>, h, <<>>)
    ELSE LET rarity == RarityType_from(next.max_rarity * 16 + next.rarity)
             block_number == Sage_get_current_block_number(h)
         IN  Returned(Ok,
                      << Minted(Mogwai(mogwai_id, block_number, final_dna,
                                       next.next_gen, rarity, Bred)) >>,
                      h, <<>>)

\* mogwai_id stands for the hash drawn for b"mogwai_id", next stands for
\* the (rarity, next_gen, max_rarity) of Generation::next_gen and final_dna
\* for the result of Breeding::pairing.
create_mogwai(h, owner, mogwai_id, next, final_dna) ==
    IF ~(mogwai_count(h, owner) <= Sage_get_transition_config(h).max_mogwais)
    THEN Returned(Transition(1), <<>>, h, <<>>)
    ELSE LET rarity == RarityType_from(next.max_rarity * 16 + next.rarity)
             block_number == Sage_get_current_block_number(h)
         IN  Returned(Ok,
                      << Minted(Mogwai(mogwai_id, block_number, final_dna,
                                       next.next_gen, rarity, Bred)) >>,
                      h, <<>>)

\* --------------------------------------------------------------- sacrifice
\* sacrifice_mogwai paying out the whole escrow.
sacrifice_mogwai_whole_escrow(h, owner, mogwai_id, withdraw_accepted) ==
    LET owned == get_owned_mogwai(h, owner, mogwai_id)
        mogwai_funds == inspect_asset_funds(h, mogwai_id)
        intrinsic_to_deposit == mogwai_funds
        withdrawn == withdraw_funds_from_asset(h, mogwai_id, owner,
                                               intrinsic_to_deposit,
                                               withdraw_accepted)
    IN  IF owned.err # Ok
        THEN Returned(owned.err, <<>>, h, <<>>)
        ELSE IF as_mogwai(owned.asset) # Ok
        THEN Returned(as_mogwai(owned.asset), <<>>, h, <<>>)
        ELSE IF ~(owned.asset.phase # Bred)
        THEN Returned(BattleMogsError_from(MOGWAI_STILL_IN_BRED_PHASE), <<>>, h, <<>>)
        ELSE IF withdrawn.err # Ok
        THEN Returned(withdrawn.err, <<>>, withdrawn.host, <<>>)
        ELSE Returned(Ok, << Consumed(mogwai_id) >>, withdrawn.host,
                      << Withdrawn(mogwai_id, owner, intrinsic_to_deposit) >>)

sacrifice_mogwai(h, owner, mogwai_id, withdraw_accepted) ==
    LET owned == get_owned_mogwai(h, owner, mogwai_id)
        mogwai_funds == inspect_asset_funds(h, mogwai_id)
        intrinsic_to_deposit ==
            checked_div_or_zero(mogwai_funds, intrinsic_return(owned.asset.phase))
        withdrawn == withdraw_funds_from_asset(h, mogwai_id, owner,
                                               intrinsic_to_deposit,
                                               withdraw_accepted)
    IN  IF owned.err # Ok
        THEN Returned(owned.err, <<>>, h, <<>>)
        ELSE IF as_mogwai(owned.asset) # Ok
        THEN Returned(as_mogwai(owned.asset), <<>>, h, <<>>)
        ELSE IF ~(owned.asset.phase # Bred)
        THEN Returned(BattleMogsError_from(MOGWAI_STILL_IN_BRED_PHASE), <<>>, h, <<>>)
        ELSE IF withdrawn.err # Ok
        THEN Returned(withdrawn.err, <<>>, withdrawn.host, <<>>)
        ELSE Returned(Ok, << Consumed(mogwai_id) >>, withdrawn.host,
                      << Withdrawn(mogwai_id, owner, intrinsic_to_deposit) >>)

\* ------------------------------------------------------------------- breed
\* breed_paid paying the price into the escrow of the child.
breed_paid_to_child(h, owner, mogwai_1, mogwai_id_2, mogwai_2, mogwai_id, next, final_dna, deposit_accepted) ==
    LET block_number == Sage_get_current_block_number(h)
        pairing_price == pairing(mogwai_1.rarity, mogwai_2.rarity)
        deposited == deposit_funds_to_asset(h, mogwai_id, owner, pairing_price,
                                            deposit_accepted)
    IN  IF deposited.err # Ok
        THEN Returned(deposited.err, <<>>, deposited.host, <<>>)
        ELSE Returned(Ok,
                      << Minted(Mogwai(mogwai_id, block_number, final_dna,
                                       next.next_gen, next.rarity, Bred)) >>,
                      deposited.host,
                      << Deposited(mogwai_id, owner, pairing_price) >>)

\* The part of breed_mogwais after the validations; mogwai_id stands for
\* the result of new_asset_id(b"breed_mogwai", nonce), next for the
\* (rarity, next_gen, max_rarity) of Generation::next_gen and final_dna for
\* the result of Breeding::pairing.
breed_paid(h, owner, mogwai_1, mogwai_id_2, mogwai_2, mogwai_id, next, final_dna, deposit_accepted) ==
    LET block_number == Sage_get_current_block_number(h)
        pairing_price == pairing(mogwai_1.rarity, mogwai_2.rarity)
        deposited == deposit_funds_to_asset(h, mogwai_id_2, owner, pairing_price,
                                            deposit_accepted)
    IN  IF deposited.err # Ok
        THEN Returned(deposited.err, <<>>, deposited.host, <<>>)
        ELSE Returned(Ok,
                      << Minted(Mogwai(mogwai_id, block_number, final_dna,
                                       next.next_gen, next.rarity, Bred)) >>,
                      deposited.host,
                      << Deposited(mogwai_id_2, owner, pairing_price) >>)

\* breed_mogwais testing the limit before the two ids.
breed_mogwais_limit_first(h, owner, mogwai_id_1, mogwai_id_2, mogwai_id, next, final_dna, deposit_accepted) ==
    LET asset_1 == get_owned_mogwai(h, owner, mogwai_id_1)
        asset_2 == get_mogwai(h, mogwai_id_2)
    IN  IF ensure_not_max_mogwais(h, owner) # Ok
        THEN Returned(ensure_not_max_mogwais(h, owner), <<>>, h, <<>>)
        ELSE IF ~(mogwai_id_1 # mogwai_id_2)
        THEN Returned(BattleMogsError_from(CANNOT_USE_SAME_ASSET_FOR_BREEDING), <<>>, h, <<>>)
        ELSE IF asset_1.err # Ok
        THEN Returned(asset_1.err, <<>>, h, <<>>)
        ELSE IF as_mogwai(asset_1.asset) # Ok
        THEN Returned(as_mogwai(asset_1.asset), <<>>, h, <<>>)
        ELSE IF ~(asset_1.asset.phase # Bred)
        THEN Returned(BattleMogsError_from(MOGWAI_STILL_IN_BRED_PHASE), <<>>, h, <<>>)
        ELSE IF asset_2.err # Ok
        THEN Returned(asset_2.err, <<>>, h, <<>>)
        ELSE IF as_mogwai(asset_2.asset) # Ok
        THEN Returned(as_mogwai(asset_2.asset), <<>>, h, <<>>)
        ELSE IF ~(asset_2.asset.phase # Bred)
        THEN Returned(BattleMogsError_from(MOGWAI_STILL_IN_BRED_PHASE), <<>>, h, <<>>)
        ELSE breed_paid(h, owner, asset_1.asset, mogwai_id_2, asset_2.asset,
                        mogwai_id, next, final_dna, deposit_accepted)

breed_mogwais(h, owner, mogwai_id_1, mogwai_id_2, mogwai_id, next, final_dna, deposit_accepted) ==
    LET asset_1 == get_owned_mogwai(h, owner, mogwai_id_1)
        asset_2 == get_mogwai(h, mogwai_id_2)
    IN  IF ~(mogwai_id_1 # mogwai_id_2)
        THEN Returned(BattleMogsError_from(CANNOT_USE_SAME_ASSET_FOR_BREEDING), <<>>, h, <<>>)
        ELSE IF ensure_not_max_mogwais(h, owner) # Ok
        THEN Returned(ensure_not_max_mogwais(h, owner), <<>>, h, <<>>)
        ELSE IF asset_1.err # Ok
        THEN Returned(asset_1.err, <<>>, h, <<>>)
        ELSE IF as_mogwai(asset_1.asset) # Ok
        THEN Returned(as_mogwai(asset_1.asset), <<>>, h, <<>>)
        ELSE IF ~(asset_1.asset.phase # Bred)
        THEN Returned(BattleMogsError_from(MOGWAI_STILL_IN_BRED_PHASE), <<>>, h, <<>>)
        ELSE IF asset_2.err # Ok
        THEN Returned(asset_2.err, <<>>, h, <<>>)
        ELSE IF as_mogwai(asset_2.asset) # Ok
        THEN Returned(as_mogwai(asset_2.asset), <<>>, h, <<>>)
        ELSE IF ~(asset_2.asset.phase # Bred)
        THEN Returned(BattleMogsError_from(MOGWAI_STILL_IN_BRED_PHASE), <<>>, h, <<>>)
        ELSE breed_paid(h, owner, asset_1.asset, mogwai_id_2, asset_2.asset,
                        mogwai_id, next, final_dna, deposit_accepted)

\* ------------------------------------------------- the host between calls
\* Asset ids and accounts of the stores explored.
MogIds == 1 .. 4
Accounts == {ALICE, BOB}

\* No store: the placeholder of host where BattleMogs is not running.
NoHost ==
    [assets |-> <<>>, owners |-> <<>>, funds |-> <<>>, balances |-> <<>>,
     height |-> 0, config |-> BattleMogsTransitionConfig_default]

\* No transition called yet.
NoOutcome ==
    [action |-> "None", account |-> NoPlayer, mogwai |-> 0, into |-> 0,
     jump |-> 0, err |-> Ok, outputs |-> <<>>, moved |-> <<>>,
     before |-> NoHost]

\* The record of a transition called on store h with result returned.
Outcome(action, account, mogwai, into, jump, returned, h) ==
    [action |-> action, account |-> account, mogwai |-> mogwai, into |-> into,
     jump |-> jump, err |-> returned.err, outputs |-> returned.outputs,
     moved |-> returned.moved, before |-> h]

\* The store after a transition returned: the host commits the output list
\* of a successful transition; after an error it discards the outputs, and
\* either keeps the balance operations that succeeded or rolls them back.
Committed(h, account, returned, rolled_back) ==
    IF returned.err = Ok
    THEN commit_outputs(returned.host, account, returned.outputs)
    ELSE IF rolled_back THEN h ELSE returned.host

\* ------------------------------------------------------- calls and replay
\* A call of one of the two transitions, with its arguments.
BombCall(player, position) ==
    [op |-> "drop_bomb", player |-> player, coordinates |-> position,
     side |-> "none", position |-> -1]

StoneCall(player, side, position) ==
    [op |-> "drop_stone", player |-> player, coordinates |-> <<-1, -1>>,
     side |-> side, position |-> position]

NoCall ==
    [op |-> "new_game", player |-> NoPlayer, coordinates |-> <<-1, -1>>,
     side |-> "none", position |-> -1]

\* The result of a call on a state.
Apply(game_state, c) ==
    IF c.op = "drop_bomb"
    THEN drop_bomb(game_state, c.coordinates, c.player)
    ELSE drop_stone(game_state, c.player, c.side, c.position)

\* The state after a sequence of calls; the caller of a transition keeps
\* the state it had when the transition returns an error.  (The sequence is
\* split in halves to keep the evaluation shallow.)
RECURSIVE Replay(_, _)
Replay(game_state, calls) ==
    IF calls = <<>>
    THEN game_state
    ELSE IF Len(calls) = 1
    THEN Apply(game_state, calls[1]).state
    ELSE LET half == Len(calls) \div 2
             first == Replay(game_state, SubSeq(calls, 1, half))
         IN  IF first.phase = "Bomb"
             THEN Replay(first, SubSeq(calls, half + 1, Len(calls)))
             ELSE Replay(first, SubSeq(calls, half + 1, Len(calls)))

\* ------------------------------------------------------------------ bounds
\* Successful stone drops explored after the opening.
MaxMoves == 2

\* Cells aimed at by drop_bomb: two neighbours between two blocks of the
\* default board, a corner, and a block of the default board.
BombInputs == { <<6, 6>>, <<6, 7>>, <<0, 0>>, <<5, 5>> }

\* Sides and positions used by drop_stone.
StoneInputs ==
    { <<"South", 8>>, <<"South", 9>>, <<"North", 6>>,
      <<"East", 5>>, <<"East", 6>>, <<"West", 9>> }

\* A recorded game on the board of the default seed: the six bombs, then
\* Alice stacking columns 8 and 9 from the south while Bob stacks column 4.
RecordedGame ==
    << BombCall(ALICE, <<6, 6>>), BombCall(BOB, <<6, 6>>),
       BombCall(ALICE, <<6, 7>>), BombCall(BOB, <<6, 7>>),
       BombCall(ALICE, <<0, 0>>), BombCall(BOB, <<0, 0>>),
       StoneCall(ALICE, "South", 8), StoneCall(BOB, "North", 4),
       StoneCall(ALICE, "South", 8), StoneCall(BOB, "North", 4),
       StoneCall(ALICE, "South", 8), StoneCall(BOB, "North", 4),
       StoneCall(ALICE, "South", 8), StoneCall(BOB, "North", 4),
       StoneCall(ALICE, "South", 9), StoneCall(BOB, "North", 4),
       StoneCall(ALICE, "South", 9), StoneCall(BOB, "North", 4),
       StoneCall(ALICE, "South", 9), StoneCall(BOB, "North", 4) >>

\* Where exploration starts: a seed given to new_game (NoSeed: the default
\* seed) and the number of calls of the record replayed on the new game.
\* On the default board: none, six stones, and the whole record; on the
\* board of seed 7357: the six bomb calls, two of which aim at a block.
Starts == { <<NoSeed, 0>>, <<NoSeed, 12>>, <<NoSeed, 20>>, <<7357, 6>> }

\* Last block height explored.
MaxHeight == 201

\* Updates of one achievement state explored.
MaxUpdates == 3

\* Targets and amounts of the achievement states explored.
Targets == {0, 1, 100, U16_MAX}
Amounts == {0, 1, 99, 100, U16_MAX - 1, U16_MAX}

\* Results of Breeding::sacrifice explored.
Jumps == {0, 1, 2}

\* Results of Breeding::bake and Breeding::segmenting explored by hatch.
BakedRarities == {Common, Rare}
SegmentedDnas == {2}

\* A store at height 199: two eggs of genesis 100, one of each account, and
\* the achievement table of ALICE.
EggStore ==
    [assets |-> << Mogwai(1, 100, 0, First, Common, Bred),
                   Mogwai(2, 100, 0, First, Common, Bred),
                   AchievementTable(3, 100, NewTable(BattleMogsTransitionConfig_default)),
                   NoAsset >>,
     owners |-> << ALICE, BOB, ALICE, NoPlayer >>,
     funds |-> << 0, 0, 0, 0 >>,
     balances |-> [account \in Accounts |-> 5],
     height |-> 199,
     config |-> BattleMogsTransitionConfig_default]

\* A store at height 200: three hatched mogwais of ALICE, two of them not
\* Common with paid escrows, one of generation 15, and an egg of BOB minted
\* at height 101.
HatchedStore ==
    [assets |-> << Mogwai(1, 50, 1, First, Rare, Hatched),
                   Mogwai(2, 60, 0, 15, Uncommon, Hatched),
                   Mogwai(3, 101, 0, First, Common, Bred),
                   Mogwai(4, 70, 1, First, Common, Hatched) >>,
     owners |-> << ALICE, ALICE, BOB, ALICE >>,
     funds |-> << 7, 2, 0, 0 >>,
     balances |-> [account \in Accounts |-> 5],
     height |-> 200,
     config |-> BattleMogsTransitionConfig_default]

MogsStarts == { EggStore, HatchedStore }

\* Heights at which the calls of a whole game are explored.
Heights == {0, 100}

\* Results of Generation::next_gen explored, for create_mogwai and for
\* breed_mogwais, and results of Breeding::pairing explored.
CreatedGens == { [rarity |-> Common, next_gen |-> First, max_rarity |-> Common] }
BredGens == { [rarity |-> Rare, next_gen |-> 2, max_rarity |-> Rare] }
PairedDnas == {1}

\* The store before any call: no asset, two accounts with 500 MILLIMOGS, and
\* a configuration that lets an account hold few mogwais.
EmptyStore ==
    [assets |-> << NoAsset, NoAsset, NoAsset >>,
     owners |-> << NoPlayer, NoPlayer, NoPlayer >>,
     funds |-> << 0, 0, 0 >>,
     balances |-> [account \in Accounts |-> 500],
     height |-> 0,
     config |-> [BattleMogsTransitionConfig_default EXCEPT !.max_mogwais = 1]]

\* ------------------------------------------------------------ state machine
\* game_state, call, result and moves: a game, the last transition called on
\* it with its result, and the number of stones dropped.  creation: the
\* locals of a running new_game.
\* host: the asset store, escrows, balances and block height the BattleMogs
\* transitions read through the Sage API.  outcome: the last BattleMogs
\* transition called, with its result.
VARIABLES game_state, call, result, moves, creation, host, outcome, achievement

vars == <<game_state, call, result, moves, creation, host, outcome, achievement>>

\* No new_game is running.
NoCreation == [given |-> NoSeed, seed |-> NoSeed, blocks |-> {},
               remaining_blocks |-> 0, returned |-> TRUE]

Init ==
    /\ \E start \in Starts :
          game_state = Replay(new_game(ALICE, BOB, start[1]),
                              SubSeq(RecordedGame, 1, start[2]))
    /\ call = NoCall
    /\ result = "Ok"
    /\ moves = 0
    /\ creation = NoCreation
    /\ host = NoHost
    /\ outcome = NoOutcome
    /\ achievement = NoAchievement

DropBomb ==
    \E player \in Players, position \in BombInputs :
        LET returned == drop_bomb(game_state, position, player)
        IN  /\ game_state' = returned.state
            /\ call' = BombCall(player, position)
            /\ result' = returned.err
            /\ UNCHANGED <<moves, creation, host, outcome, achievement>>

DropStone ==
    /\ moves < MaxMoves
    /\ \E player \in Players, input \in StoneInputs :
        LET returned == drop_stone(game_state, player, input[1], input[2])
        IN  /\ game_state' = returned.state
            /\ call' = StoneCall(player, input[1], input[2])
            /\ result' = returned.err
            /\ moves' = IF returned.err = "Ok" THEN moves + 1 ELSE moves
            /\ UNCHANGED <<creation, host, outcome, achievement>>

Next == DropBomb \/ DropStone

Spec == Init /\ [][Next]_vars

TypeOK ==
    /\ game_state.phase \in {"Bomb", "Play"}
    /\ game_state.winner \in Players \cup {NoPlayer}
    /\ game_state.next_player \in Players
    /\ moves \in 0 .. MaxMoves

\* ------------------------------------------------- new_game, step by step
\* Seeds given to new_game: None, the seeds of the tests, the ends of the
\* range of the generator, its fixed points, and the u32 values around the
\* point where 75 * seed + 74 saturates (every seed from there up to
\* u32::MAX gives the same draws; 2^31 - 1 stands for them).
SeedInputs ==
    { NoSeed, INITIAL_SEED, 123, 456, 7357, 0, 1, 2, 42, 1023, 32767, 65535,
      SaturationSeed - 1, SaturationSeed, 2147483647 }

\* No game has been returned yet.
NoGame == [phase |-> "None"]

\* The locals of new_game before its while loop.
InitNewGame ==
    /\ \E given \in SeedInputs :
          creation = [given |-> given,
                      seed |-> IF given = NoSeed THEN INITIAL_SEED ELSE given,
                      blocks |-> {},
                      remaining_blocks |-> NUM_OF_BLOCKS,
                      returned |-> FALSE]
    /\ game_state = NoGame
    /\ call = NoCall
    /\ result = "Ok"
    /\ moves = 0
    /\ host = NoHost
    /\ outcome = NoOutcome
    /\ achievement = NoAchievement

\* One iteration of the while loop of new_game.
PlaceBlock ==
    /\ ~creation.returned
    /\ creation.remaining_blocks > 0
    /\ LET random == Coordinates_random(creation.seed)
       IN  creation' =
             IF random[1] \notin creation.blocks
             THEN [creation EXCEPT !.seed = random[2],
                                   !.blocks = @ \cup {random[1]},
                                   !.remaining_blocks = @ - 1]
             ELSE [creation EXCEPT !.seed = random[2]]
    /\ UNCHANGED <<game_state, call, result, moves, host, outcome, achievement>>

\* The loop is over: new_game returns the GameState.
ReturnGame ==
    /\ ~creation.returned
    /\ creation.remaining_blocks = 0
    /\ creation' = [creation EXCEPT !.returned = TRUE]
    /\ game_state' =
         [seed |-> creation.seed,
          board |-> [row \in Rows |-> [col \in Cols |->
                       IF Coordinates_new(row, col) \in creation.blocks
                       THEN Block
                       ELSE Empty]],
          phase |-> "Bomb",
          winner |-> NoPlayer,
          next_player |-> ALICE,
          players |-> <<ALICE, BOB>>,
          scores |-> << <<ALICE, 0>>, <<BOB, 0>> >>,
          bombs |-> << <<ALICE, NUM_OF_BOMBS_PER_PLAYER>>,
                       <<BOB, NUM_OF_BOMBS_PER_PLAYER>> >>,
          last_move |-> NoMove]
    /\ UNCHANGED <<call, result, moves, host, outcome, achievement>>

NextNewGame == PlaceBlock \/ ReturnGame

SpecNewGame == InitNewGame /\ [][NextNewGame]_vars

\* new_game runs on: an iteration that can change a local is taken.
FairNewGame == SpecNewGame /\ WF_vars(NextNewGame)

\* ----------------------------------------------- achievement state updates
InitAchievement ==
    /\ \E target \in Targets :
          achievement = [op |-> "new", before |-> AchievementState_new(target),
                         amount |-> 0, state |-> AchievementState_new(target),
                         updates |-> 0]
    /\ host = NoHost
    /\ outcome = NoOutcome
    /\ game_state = NoGame
    /\ call = NoCall
    /\ result = "Ok"
    /\ moves = 0
    /\ creation = NoCreation

\* state.update(amount)
Update ==
    /\ achievement.updates < MaxUpdates
    /\ achievement.state # Panicked
    /\ \E amount \in Amounts, overflow_checks \in BOOLEAN :
          achievement' =
              [op |-> "update", before |-> achievement.state, amount |-> amount,
               state |-> update(achievement.state, amount, overflow_checks),
               updates |-> achievement.updates + 1]
    /\ UNCHANGED <<game_state, call, result, moves, creation, host, outcome>>

\* state.increase_by(amount)
IncreaseBy ==
    /\ achievement.updates < MaxUpdates
    /\ achievement.state # Panicked
    /\ \E amount \in Amounts :
          achievement' =
              [op |-> "increase_by", before |-> achievement.state,
               amount |-> amount,
               state |-> increase_by(achievement.state, amount),
               updates |-> achievement.updates + 1]
    /\ UNCHANGED <<game_state, call, result, moves, creation, host, outcome>>

NextAchievement == Update \/ IncreaseBy

SpecAchievement == InitAchievement /\ [][NextAchievement]_vars

\* -------------------------------------------- conversions to a generation
\* Numbers converted up to MaxNumber, and those around the ends of u8 and u16.
MaxNumber == 40
Numbers == (0 .. MaxNumber) \cup {255, 256, 257, 271, 272, 273, 65534, 65535}

ConversionCall(op, num) ==
    [op |-> op, player |-> NoPlayer, coordinates |-> <<-1, -1>>,
     side |-> "none", position |-> num]

InitGeneration ==
    /\ call = NoCall
    /\ result = "Ok"
    /\ game_state = NoGame
    /\ moves = 0
    /\ creation = NoCreation
    /\ host = NoHost
    /\ outcome = NoOutcome
    /\ achievement = NoAchievement

\* One conversion of a number: coerce_from(n), MogwaiGeneration::from(n as
\* u16), MogwaiGeneration::from(n as u8); the cast to u8 keeps n mod 256.
Convert ==
    \E num \in Numbers :
        /\ \/ /\ call' = ConversionCall("coerce_from", num)
              /\ result' = coerce_from(num)
           \/ /\ call' = ConversionCall("from_u16", num)
              /\ result' = MogwaiGeneration_from(num)
           \/ /\ call' = ConversionCall("from_u8", num)
              /\ result' = MogwaiGeneration_from_u8(num % 256)
        /\ UNCHANGED <<game_state, moves, creation, host, outcome, achievement>>

SpecGeneration == InitGeneration /\ [][Convert]_vars

\* ------------------------------------------------- BattleMogs transitions
InitMogs ==
    /\ host \in MogsStarts
    /\ outcome = NoOutcome
    /\ game_state = NoGame
    /\ call = NoCall
    /\ result = "Ok"
    /\ moves = 0
    /\ creation = NoCreation
    /\ achievement = NoAchievement

\* The host produces a block.
Advance ==
    /\ host.height < MaxHeight
    /\ host' = [host EXCEPT !.height = @ + 1]
    /\ outcome' = NoOutcome
    /\ UNCHANGED <<game_state, call, result, moves, creation, achievement>>

\* do_transition on BattleMogsAction::Hatch, and the commit of the host.
Hatch ==
    \E account \in Accounts, mogwai_id \in DOMAIN host.assets,
       dna \in SegmentedDnas, rarity \in BakedRarities :
        LET returned == hatch_mogwai(host, account, mogwai_id, dna, rarity)
        IN  /\ outcome' = Outcome("Hatch", account, mogwai_id, 0, 0, returned, host)
            /\ host' = Committed(host, account, returned, TRUE)
            /\ UNCHANGED <<game_state, call, result, moves, creation, achievement>>

\* do_transition on BattleMogsAction::SacrificeInto, and the commit of the host.
SacrificeInto ==
    \E account \in Accounts, mogwai_id \in DOMAIN host.assets,
       into_mogwai_id \in DOMAIN host.assets,
       gen_jump \in Jumps, withdraw_accepted \in BOOLEAN,
       deposit_accepted \in BOOLEAN, rolled_back \in BOOLEAN :
        LET returned == sacrifice_mogwai_into(host, account, mogwai_id,
                                              into_mogwai_id, gen_jump,
                                              withdraw_accepted, deposit_accepted)
        IN  /\ outcome' = Outcome("SacrificeInto", account, mogwai_id,
                                  into_mogwai_id, gen_jump, returned, host)
            /\ host' = Committed(host, account, returned, rolled_back)
            /\ UNCHANGED <<game_state, call, result, moves, creation, achievement>>

NextMogs == Advance \/ Hatch \/ SacrificeInto

SpecMogs == InitMogs /\ [][NextMogs]_vars

\* ------------------------------------------- BattleMogs from an empty store
InitStore ==
    /\ host = EmptyStore
    /\ outcome = NoOutcome
    /\ game_state = NoGame
    /\ call = NoCall
    /\ result = "Ok"
    /\ moves = 0
    /\ creation = NoCreation
    /\ achievement = NoAchievement

\* Ids the host has not used: the ids of new assets come from its hashes.
FreshIds(h) ==
    { asset_id \in DOMAIN h.assets :
        h.assets[asset_id] = NoAsset /\ h.funds[asset_id] = 0 }

\* The host produces blocks up to a later height.
Wait ==
    /\ \E height \in Heights :
          /\ height > host.height
          /\ host' = [host EXCEPT !.height = height]
    /\ outcome' = NoOutcome
    /\ UNCHANGED <<game_state, call, result, moves, creation, achievement>>

\* do_transition on BattleMogsAction::RegisterPlayer, and the commit.
Register ==
    \E account \in Accounts, table_id \in FreshIds(host) :
        LET returned == register_player(host, account, table_id)
        IN  /\ outcome' = Outcome("RegisterPlayer", account, table_id, 0, 0,
                                  returned, host)
            /\ host' = Committed(host, account, returned, TRUE)
            /\ UNCHANGED <<game_state, call, result, moves, creation, achievement>>

\* do_transition on BattleMogsAction::CreateMogwai, and the commit.
Create ==
    \E account \in Accounts, mogwai_id \in FreshIds(host),
       next \in CreatedGens, final_dna \in PairedDnas :
        LET returned == create_mogwai(host, account, mogwai_id, next, final_dna)
        IN  /\ outcome' = Outcome("CreateMogwai", account, mogwai_id, 0, 0,
                                  returned, host)
            /\ host' = Committed(host, account, returned, TRUE)
            /\ UNCHANGED <<game_state, call, result, moves, creation, achievement>>

\* do_transition on BattleMogsAction::Sacrifice, and the commit.
Sacrifice ==
    \E account \in Accounts, mogwai_id \in DOMAIN host.assets,
       withdraw_accepted \in BOOLEAN :
        LET returned == sacrifice_mogwai(host, account, mogwai_id,
                                         withdraw_accepted)
        IN  /\ outcome' = Outcome("Sacrifice", account, mogwai_id, 0, 0,
                                  returned, host)
            /\ host' = Committed(host, account, returned, TRUE)
            /\ UNCHANGED <<game_state, call, result, moves, creation, achievement>>

\* do_transition on BattleMogsAction::Breed, and the commit.  mogwai and into
\* of the outcome are the two parents; the child is in the outputs.
Breed ==
    \E account \in Accounts, mogwai_id_1 \in DOMAIN host.assets,
       mogwai_id_2 \in DOMAIN host.assets, mogwai_id \in FreshIds(host),
       next \in BredGens, final_dna \in PairedDnas,
       deposit_accepted \in BOOLEAN :
        LET returned == breed_mogwais(host, account, mogwai_id_1, mogwai_id_2,
                                      mogwai_id, next, final_dna,
                                      deposit_accepted)
        IN  /\ outcome' = Outcome("Breed", account, mogwai_id_1, mogwai_id_2, 0,
                                  returned, host)
            /\ host' = Committed(host, account, returned, TRUE)
            /\ UNCHANGED <<game_state, call, result, moves, creation, achievement>>

\* The call of the step returned its outputs or left something in the store.
\* A call that fails and leaves the store as it was is no step here: what
\* every call returns in every store is stated by the claims.
Effective == outcome'.err = Ok \/ host' # host

NextStore ==
    \/ Wait
    \/ (Register /\ Effective)
    \/ (Create /\ Effective)
    \/ (Hatch /\ Effective)
    \/ (Sacrifice /\ Effective)
    \/ (SacrificeInto /\ Effective)
    \/ (Breed /\ Effective)

SpecStore == InitStore /\ [][NextStore]_vars

\* ----------------------------------------------------- notions of the claims
\* The cells a stone dropped from side at position goes through, in order.
Path(side, position) ==
    [i \in 1 .. BOARD_WIDTH |->
        CASE side = "North" -> <<i - 1, position>>
          [] side = "South" -> <<BOARD_HEIGHT - i, position>>
          [] side = "West"  -> <<position, i - 1>>
          [] side = "East"  -> <<position, BOARD_WIDTH - i>>]

CellAt(board, coordinates) == board[coordinates[1]][coordinates[2]]

\* Rank in the path of the first cell that is not Empty; 0 when all are Empty.
FirstObstacle(board, side, position) ==
    LET hits == {i \in 1 .. BOARD_WIDTH : CellAt(board, Path(side, position)[i]) # Empty}
    IN  IF hits = {}
        THEN 0
        ELSE CHOOSE i \in hits : \A j \in hits : i <= j

\* The board with one more stone of the player of that index.
WithStone(board, coordinates, index) ==
    [row \in Rows |-> [col \in Cols |->
        IF <<row, col>> = coordinates
        THEN [kind |-> "Stone", a |-> index, b |-> NoIndex]
        ELSE board[row][col]]]

\* The game is in the Play phase and not finished.
InProgress == game_state.phase = "Play" /\ game_state.winner = NoPlayer

IndexOf(player) == IF player = game_state.players[1] THEN 0 ELSE 1

Other(player) == IF player = ALICE THEN BOB ELSE ALICE

Positions == 0 .. (BOARD_WIDTH - 1)

\* --------------------------------------------------------------------- C1
\* C1: drop_stone treats a Stone obstacle like a Block obstacle on all four
\* sides: in the Play phase, when the player whose turn it is drops a stone
\* and the first cell of the path that is not Empty is a Stone reached after
\* at least one step, the drop succeeds and puts Stone(caller) in the cell
\* just before that Stone, also when the Stone is in the far-edge cell.
C1_StoneStopsLikeBlock ==
    [][ ( /\ call'.op = "drop_stone"
          /\ InProgress
          /\ call'.player = game_state.next_player
          /\ call'.position \in Positions
          /\ FirstObstacle(game_state.board, call'.side, call'.position) >= 2
          /\ CellAt(game_state.board,
                    Path(call'.side, call'.position)[
                        FirstObstacle(game_state.board, call'.side, call'.position)]).kind
               = "Stone" )
        => ( /\ result' = "Ok"
             /\ game_state'.board =
                  WithStone(game_state.board,
                            Path(call'.side, call'.position)[
                                FirstObstacle(game_state.board, call'.side,
                                              call'.position) - 1],
                            IndexOf(call'.player)) )
      ]_vars

\* --------------------------------------------------------------------- C2
\* C2: for every side and every position 0..9, a stone dropped by the next
\* player in the Play phase slides over Empty cells: with no Bomb, Block or
\* Stone in the path it lands in the opposite-edge cell; when the first cell
\* that is not Empty is a Block reached after at least one step it lands in
\* the cell just before the Block; that cell was Empty, becomes
\* Stone(caller), and no other cell of the board changes.
C2_SlideToEdgeOrBlock ==
    InProgress =>
        \A side \in Sides, position \in Positions :
            LET path == Path(side, position)
                first == FirstObstacle(game_state.board, side, position)
                dropped == drop_stone(game_state, game_state.next_player, side, position)
                index == IndexOf(game_state.next_player)
            IN  /\ first = 0 =>
                      /\ dropped.err = "Ok"
                      /\ dropped.state.board =
                            WithStone(game_state.board, path[BOARD_WIDTH], index)
                /\ (first >= 2 /\ CellAt(game_state.board, path[first]) = Block) =>
                      /\ dropped.err = "Ok"
                      /\ CellAt(game_state.board, path[first - 1]) = Empty
                      /\ dropped.state.board =
                            WithStone(game_state.board, path[first - 1], index)

\* A stone dropped from the east in row 5 of the default board has stopped
\* before the block at (5, 5); one dropped from the west in the free row 9
\* has reached the opposite edge.
C2_Witness ==
    /\ result = "Ok"
    /\ \/ /\ call = StoneCall(ALICE, "East", 5)
          /\ game_state.board[5][5] = Block
          /\ game_state.board[5][6] = Stone(0)
          /\ game_state.board[5][7] = Empty
       \/ /\ call = StoneCall(ALICE, "West", 9)
          /\ game_state.board[9][9] = Stone(0)
          /\ game_state.board[9][8] = Empty

\* --------------------------------------------------------------------- C3
\* C3: once winner is Some, every later transition call, drop_bomb as well as
\* drop_stone, by any player with any arguments, returns
\* Err(GameAlreadyFinished).
C3_FinishedGameRefusesAll ==
    [][ game_state.winner # NoPlayer => result' = "GameAlreadyFinished" ]_vars

\* --------------------------------------------------------------------- C4
\* Bombs the players have left, and bombs lying on the board (each occupant
\* of a Bomb cell counts).
BombsLeft(state) ==
    state.bombs[1][2] + state.bombs[2][2]

BombsIn(cell) ==
    IF cell.kind # "Bomb"
    THEN 0
    ELSE (IF cell.a # NoIndex THEN 1 ELSE 0) + (IF cell.b # NoIndex THEN 1 ELSE 0)

BombsOnRow(board, row) ==
    Cardinality({col \in Cols : BombsIn(board[row][col]) >= 1})
      + Cardinality({col \in Cols : BombsIn(board[row][col]) >= 2})

RECURSIVE BombsOnRows(_, _)
BombsOnRows(board, row) ==
    IF row >= BOARD_HEIGHT
    THEN 0
    ELSE BombsOnRow(board, row) + BombsOnRows(board, row + 1)

BombsOnBoard(board) == BombsOnRows(board, 0)

BombSum(state) == BombsLeft(state) + BombsOnBoard(state.board)

\* The cells of the 3x3 neighbourhood of a cell that are inside the board.
Around(centre) ==
    {coordinates \in Rows \X Cols :
        /\ coordinates[1] - centre[1] \in -1 .. 1
        /\ coordinates[2] - centre[2] \in -1 .. 1}

\* The call of this step is a drop_stone that succeeds on a path whose first
\* cell that is not Empty holds a bomb.
Detonates ==
    /\ call'.op = "drop_stone"
    /\ result' = "Ok"
    /\ FirstObstacle(game_state.board, call'.side, call'.position) >= 1
    /\ CellAt(game_state.board,
              Path(call'.side, call'.position)[
                  FirstObstacle(game_state.board, call'.side, call'.position)]).kind
         = "Bomb"

\* C4 as stated: in every reachable state the bombs left plus the bombs on
\* the board are NUM_OF_BOMBS_PER_PLAYER x NUM_OF_PLAYERS = 6.
C4_BombsConserved ==
    BombSum(game_state) = NUM_OF_BOMBS_PER_PLAYER * NUM_OF_PLAYERS

\* C4 amended: the sum is 6 through the Bomb phase and never above 6; a
\* drop_stone that detonates a bomb lowers it by at least one (the bombs of
\* the neighbourhood are removed and go back to nobody), and no other call
\* changes it.
C4_BombsConservedUntilDetonation ==
    /\ [](/\ BombSum(game_state) <= NUM_OF_BOMBS_PER_PLAYER * NUM_OF_PLAYERS
          /\ game_state.phase = "Bomb" =>
                BombSum(game_state) = NUM_OF_BOMBS_PER_PLAYER * NUM_OF_PLAYERS)
    /\ [][ IF Detonates
           THEN BombSum(game_state') < BombSum(game_state)
           ELSE BombSum(game_state') = BombSum(game_state) ]_vars

\* A stone has detonated a bomb: fewer than six bombs are left or on the board.
C4_Witness ==
    /\ call.op = "drop_stone"
    /\ result = "Ok"
    /\ BombsLeft(game_state) = 0
    /\ BombsOnBoard(game_state.board) < NUM_OF_BOMBS_PER_PLAYER * NUM_OF_PLAYERS

\* --------------------------------------------------------------------- C5
\* C5: in every reachable state the phase is Bomb if and only if some player
\* has a bomb left; the phase goes from Bomb to Play in the successful
\* drop_bomb call that brings the last count to zero, and never goes back
\* from Play to Bomb.
C5_PhaseFollowsBombs ==
    /\ [](game_state.phase = "Bomb" <=>
             \E i \in DOMAIN game_state.bombs : game_state.bombs[i][2] > 0)
    /\ [][ /\ game_state.phase = "Play" => game_state'.phase = "Play"
           /\ (game_state.phase = "Bomb" /\ game_state'.phase = "Play") =>
                 /\ call'.op = "drop_bomb"
                 /\ result' = "Ok"
                 /\ BombsLeft(game_state) = 1
                 /\ BombsLeft(game_state') = 0
           /\ (call'.op = "drop_bomb" /\ result' = "Ok" /\ BombsLeft(game_state) = 1) =>
                 game_state'.phase = "Play" ]_vars

\* The last bomb has just been dropped and the phase is Play.
C5_Witness ==
    /\ call.op = "drop_bomb"
    /\ result = "Ok"
    /\ game_state.phase = "Play"
    /\ BombsLeft(game_state) = 0

\* --------------------------------------------------------------------- C6
\* C6: in the Play phase of an unfinished game, for every player, side and
\* position: drop_stone by a player who is not next_player returns
\* NotPlayerTurn and leaves the state unchanged; a drop_stone that succeeds
\* was called by next_player, sets next_player to the other player and
\* last_move to {caller, side, position}.  Hence the player of the last move
\* is never the next player: nobody makes two successful drops in a row.
C6_TurnsAlternate ==
    /\ game_state.last_move # NoMove =>
          game_state.last_move.player # game_state.next_player
    /\ InProgress =>
          \A player \in Players, side \in Sides, position \in Positions :
              LET dropped == drop_stone(game_state, player, side, position)
              IN  /\ player # game_state.next_player =>
                        /\ dropped.err = "NotPlayerTurn"
                        /\ dropped.state = game_state
                  /\ dropped.err = "Ok" =>
                        /\ player = game_state.next_player
                        /\ dropped.state.next_player = Other(player)
                        /\ dropped.state.last_move =
                              LastMove_new(player, side, position)

\* Two successful drops have been made, the last one by the caller recorded
\* in last_move, and the turn is the other player's.
C6_Witness ==
    /\ call.op = "drop_stone"
    /\ result = "Ok"
    /\ moves = 2
    /\ game_state.last_move = LastMove_new(call.player, call.side, call.position)
    /\ game_state.next_player = Other(call.player)

\* --------------------------------------------------------------------- C7
\* The 2x2 windows (by top-left corner) that stones of one player index cover.
Windows(board, index) ==
    {corner \in (0 .. (BOARD_HEIGHT - 2)) \X (0 .. (BOARD_WIDTH - 2)) :
        \A dr \in 0 .. 1, dc \in 0 .. 1 :
            board[corner[1] + dr][corner[2] + dc] = Stone(index)}

\* The board of the example: Alice's stones on three separate 2x2 windows.
ExampleStones ==
    { <<1, 2>>, <<1, 3>>, <<2, 2>>, <<2, 3>>, <<4, 5>>, <<4, 6>>,
      <<5, 5>>, <<5, 6>>, <<6, 3>>, <<6, 4>>, <<7, 3>>, <<7, 4>> }

ExampleState ==
    [new_game(ALICE, BOB, NoSeed) EXCEPT
        !.board = [row \in Rows |-> [col \in Cols |->
                      IF <<row, col>> \in ExampleStones THEN Stone(0) ELSE Empty]]]

Directions == { <<1, 0>>, <<0, 1>>, <<1, 1>>, <<1, -1>> }

FourInLine(board, index) ==
    \E start \in Rows \X Cols, direction \in Directions :
        \A step \in 0 .. 3 :
            LET row == start[1] + step * direction[1]
                col == start[2] + step * direction[2]
            IN  /\ row \in Rows
                /\ col \in Cols
                /\ board[row][col] = Stone(index)

\* C8: a player who has four stones adjacent in a line (vertical,
\* horizontal, ascending or descending diagonal) is declared the winner; a
\* game played through drop_stone ends with that player as winner when the
\* fourth stone completes a vertical line of four.
C8_FourInLineWins ==
    \A index \in PlayerIndexes :
        FourInLine(game_state.board, index) =>
            game_state.winner = game_state.players[index + 1]

\* --------------------------------------------------------------------- C9
\* The board after a detonation at centre, as the claim describes it: the
\* cells of the neighbourhood that are not a Block are Empty, the others are
\* as before.
Cleared(board, centre) ==
    [row \in Rows |-> [col \in Cols |->
        IF <<row, col>> \in Around(centre) /\ board[row][col] # Block
        THEN Empty
        ELSE board[row][col]]]

\* C9: in the Play phase of an unfinished game, for every side and position
\* whose path reaches a Bomb cell before any Block or Stone, drop_stone by
\* the next player succeeds and the board after it is the board before with
\* every cell of the bomb's 3x3 neighbourhood inside the board set to Empty
\* unless it is a Block: neighbouring bombs and stones are removed, nothing
\* outside the neighbourhood changes, and no stone is placed.
C9_DetonationClearsNeighbourhood ==
    InProgress =>
        \A side \in Sides, position \in Positions :
            LET path == Path(side, position)
                first == FirstObstacle(game_state.board, side, position)
                dropped == drop_stone(game_state, game_state.next_player, side, position)
            IN  (first >= 1 /\ CellAt(game_state.board, path[first]).kind = "Bomb") =>
                    /\ dropped.err = "Ok"
                    /\ dropped.state.board = Cleared(game_state.board, path[first])

\* A stone dropped from the north in column 6 has detonated the bombs of
\* (6, 6): that cell and its neighbour (6, 7), which held bombs too, are
\* Empty, the blocks at (5, 5) and (7, 7) stand, and column 6 holds no stone.
C9_Witness ==
    /\ call.op = "drop_stone"
    /\ call.side = "North"
    /\ call.position = 6
    /\ result = "Ok"
    /\ moves = 1
    /\ game_state.board[6][6] = Empty
    /\ game_state.board[6][7] = Empty
    /\ game_state.board[5][5] = Block
    /\ game_state.board[7][7] = Block
    /\ \A row \in Rows : game_state.board[row][6].kind # "Stone"

\* -------------------------------------------------------------------- C10
\* The board with one cell replaced.
WithCell(board, coordinates, cell) ==
    [row \in Rows |-> [col \in Cols |->
        IF <<row, col>> = coordinates THEN cell ELSE board[row][col]]]

\* C10: in the Bomb phase, for every player with a bomb left and every cell
\* of the board, drop_bomb changes the board in the target cell only:
\* Empty becomes Bomb([Some(caller), None]); Bomb([Some(other), None]) with
\* other # caller becomes Bomb([Some(other), Some(caller)]); on any other
\* target it returns InvalidBombPosition and changes nothing.  In every
\* reachable state a Bomb cell has a first occupant, and two occupants are
\* two different players.
C10_BombCellTransitions ==
    /\ \A row \in Rows, col \in Cols :
          LET cell == game_state.board[row][col]
          IN  cell.kind = "Bomb" =>
                  /\ cell.a \in PlayerIndexes
                  /\ cell.b # NoIndex => (cell.b \in PlayerIndexes /\ cell.b # cell.a)
    /\ game_state.phase = "Bomb" =>
          \A player \in Players, position \in Rows \X Cols :
              LET cell == CellAt(game_state.board, position)
                  index == IndexOf(player)
                  dropped == drop_bomb(game_state, position, player)
              IN  get_player_bombs(game_state, player) > 0 =>
                    IF cell = Empty
                    THEN /\ dropped.err = "Ok"
                         /\ dropped.state.board =
                               WithCell(game_state.board, position, Bomb(index, NoIndex))
                    ELSE IF cell.kind = "Bomb" /\ cell.b = NoIndex /\ cell.a # index
                    THEN /\ dropped.err = "Ok"
                         /\ dropped.state.board =
                               WithCell(game_state.board, position, Bomb(cell.a, index))
                    ELSE /\ dropped.err = "InvalidBombPosition"
                         /\ dropped.state = game_state

\* A bomb has just been dropped on a cell that held the other player's bomb.
C10_Witness ==
    /\ call.op = "drop_bomb"
    /\ result = "Ok"
    /\ CellAt(game_state.board, call.coordinates).kind = "Bomb"
    /\ CellAt(game_state.board, call.coordinates).b = IndexOf(call.player)
    /\ CellAt(game_state.board, call.coordinates).a = IndexOf(Other(call.player))

\* -------------------------------------------------------------------- C11
\* C11: in the Bomb phase, for every player and every cell of the board, a
\* drop_bomb that succeeds lowers the caller's bomb count by exactly 1 and
\* leaves the other player's count, both scores, next_player, last_move,
\* winner, seed and every cell but the target as they were; the phase stays
\* Bomb or becomes Play.  It succeeds for the player who is not next_player
\* exactly as for the one who is.
C11_BombDropFrame ==
    game_state.phase = "Bomb" =>
        \A player \in Players, position \in Rows \X Cols :
            LET dropped == drop_bomb(game_state, position, player)
                after == dropped.state
            IN  /\ dropped.err = "Ok" =>
                      /\ get_player_bombs(after, player)
                            = get_player_bombs(game_state, player) - 1
                      /\ get_player_bombs(after, Other(player))
                            = get_player_bombs(game_state, Other(player))
                      /\ after.scores = game_state.scores
                      /\ after.next_player = game_state.next_player
                      /\ after.last_move = game_state.last_move
                      /\ after.winner = game_state.winner
                      /\ after.seed = game_state.seed
                      /\ after.players = game_state.players
                      /\ after.phase \in {"Bomb", "Play"}
                      /\ \A row \in Rows, col \in Cols :
                            <<row, col>> # position =>
                                after.board[row][col] = game_state.board[row][col]
                /\ (/\ get_player_bombs(game_state, player) > 0
                    /\ CellAt(game_state.board, position) = Empty) =>
                      dropped.err = "Ok"

\* The player who is not next_player has just dropped a bomb.
C11_Witness ==
    /\ call.op = "drop_bomb"
    /\ result = "Ok"
    /\ call.player # game_state.next_player
    /\ get_player_bombs(game_state, call.player) < NUM_OF_BOMBS_PER_PLAYER

\* -------------------------------------------------------------------- C12
\* Number of Block cells of a board.
BlockCount(board) ==
    Cardinality({coordinates \in Rows \X Cols : CellAt(board, coordinates) = Block})

\* C12: for every seed given (None or Some(u32)), new_game terminates and the
\* state it returns has exactly NUM_OF_BLOCKS Block cells and Empty cells
\* elsewhere, phase Bomb, no winner, next_player = player1, 3 bombs and score
\* 0 for each player, no last move, and a seed that is not the seed given.
C12_NewGameTerminates ==
    <>( /\ creation.returned
        /\ BlockCount(game_state.board) = NUM_OF_BLOCKS
        /\ \A coordinates \in Rows \X Cols :
              CellAt(game_state.board, coordinates) \in {Block, Empty}
        /\ game_state.phase = "Bomb"
        /\ game_state.winner = NoPlayer
        /\ game_state.next_player = ALICE
        /\ game_state.bombs = << <<ALICE, NUM_OF_BOMBS_PER_PLAYER>>,
                                 <<BOB, NUM_OF_BOMBS_PER_PLAYER>> >>
        /\ game_state.scores = << <<ALICE, 0>>, <<BOB, 0>> >>
        /\ game_state.last_move = NoMove
        /\ game_state.seed # creation.given )

\* -------------------------------------------------------------------- C13
\* Stones of the other player index in the 3x3 neighbourhood of a cell.
OpponentStonesAround(board, centre, index) ==
    Cardinality({coordinates \in Around(centre) :
                    /\ CellAt(board, coordinates).kind = "Stone"
                    /\ CellAt(board, coordinates).a # index})

\* C13: in the Play phase of an unfinished game, for every side and position,
\* a drop_stone of the next player that succeeds raises the caller's score by
\* NB_POINT_STONE = 1, plus, when the path reaches a bomb first, 1 for each
\* stone of the opponent that was in the bomb's 3x3 neighbourhood before the
\* clear (the caller's own stones give nothing); the opponent's score is
\* unchanged; and no call of drop_stone by any player lowers a score.
C13_Scoring ==
    InProgress =>
        \A side \in Sides, position \in Positions :
            LET player == game_state.next_player
                path == Path(side, position)
                first == FirstObstacle(game_state.board, side, position)
                dropped == drop_stone(game_state, player, side, position)
                refused == drop_stone(game_state, Other(player), side, position)
                destroyed ==
                    IF first >= 1 /\ CellAt(game_state.board, path[first]).kind = "Bomb"
                    THEN OpponentStonesAround(game_state.board, path[first],
                                              IndexOf(player))
                    ELSE 0
            IN  /\ dropped.err = "Ok" =>
                      /\ get_player_score(dropped.state, player)
                            = get_player_score(game_state, player)
                                + NB_POINT_STONE
                                + NB_POINT_ENEMY_STONE_DESTROYED * destroyed
                      /\ get_player_score(dropped.state, Other(player))
                            = get_player_score(game_state, Other(player))
                /\ dropped.err # "Ok" => dropped.state.scores = game_state.scores
                /\ refused.state.scores = game_state.scores

\* Alice has put a stone next to the bombs and Bob has detonated them: Bob
\* scores 1 for his drop and 1 for Alice's stone.
C13_Witness ==
    /\ call = StoneCall(BOB, "East", 6)
    /\ result = "Ok"
    /\ game_state.scores = << <<ALICE, 1>>, <<BOB, 2>> >>
    /\ game_state.board[5][6] = Empty

\* -------------------------------------------------------------------- C14
\* Positions given to drop_stone, those past the board included.
AnyPositions == 0 .. (BOARD_WIDTH + 1)

\* The cell a stone enters by.
EntryCell(side, position) ==
    CASE side = "North" -> <<0, position>>
      [] side = "South" -> <<BOARD_HEIGHT - 1, position>>
      [] side = "West"  -> <<position, 0>>
      [] side = "East"  -> <<position, BOARD_WIDTH - 1>>

\* The rejection the claim gives for a call, or "None".
Rejection(player, side, position) ==
    IF game_state.phase # "Play" THEN "DroppedStoneOutsidePlayPhase"
    ELSE IF game_state.winner # NoPlayer THEN "GameAlreadyFinished"
    ELSE IF player # game_state.next_player THEN "NotPlayerTurn"
    ELSE IF position >= BOARD_WIDTH THEN "InvalidStonePosition"
    ELSE IF CellAt(game_state.board, EntryCell(side, position)).kind
               \in {"Block", "Stone"}
    THEN "InvalidStonePosition"
    ELSE "None"

\* C14: in every reachable state, for every player, side and position (also
\* past the board), drop_stone rejects in this order and leaves the state
\* unchanged: phase not Play -> DroppedStoneOutsidePlayPhase, also for the
\* player whose turn it is not; else a winner -> GameAlreadyFinished; else
\* caller not next_player -> NotPlayerTurn; else entry cell outside the
\* board, a Block or a Stone -> InvalidStonePosition.
C14_DropStoneRejections ==
    \A player \in Players, side \in Sides, position \in AnyPositions :
        LET dropped == drop_stone(game_state, player, side, position)
        IN  Rejection(player, side, position) # "None" =>
                /\ dropped.err = Rejection(player, side, position)
                /\ dropped.state = game_state

\* The player whose turn it is not has called drop_stone in the Bomb phase.
C14_Witness ==
    /\ call.op = "drop_stone"
    /\ call.player # game_state.next_player
    /\ game_state.phase = "Bomb"
    /\ result = "DroppedStoneOutsidePlayPhase"

\* -------------------------------------------------------------------- C15
\* Coordinates given to drop_bomb, those past the board included.
AnyCoordinates == (0 .. BOARD_HEIGHT) \X (0 .. BOARD_WIDTH)

\* C15: in every reachable state, for every player value (an account that
\* is not one of the two players included), all coordinates, every side and
\* position, drop_bomb and drop_stone return Ok(state) or Err(GameError): no
\* call aborts through an expect or unwrap, and bomb counts and scores stay
\* inside u8.
C15_NoPanics ==
    \A player \in Players \cup {CHARLIE} :
        /\ \A position \in AnyCoordinates :
              LET dropped == drop_bomb(game_state, position, player)
              IN  /\ dropped.err # "Panic"
                  /\ \A i \in DOMAIN dropped.state.bombs :
                        dropped.state.bombs[i][2] \in 0 .. 255
        /\ \A side \in Sides, position \in AnyPositions :
              LET dropped == drop_stone(game_state, player, side, position)
              IN  /\ dropped.err # "Panic"
                  /\ \A i \in DOMAIN dropped.state.scores :
                        dropped.state.scores[i][2] \in 0 .. 255

\* -------------------------------------------------------------------- C16
\* C16: a game with a winner is terminal: in every reachable state with
\* winner = Some, for every player, all coordinates, every side and
\* position, the state drop_bomb and drop_stone leave has the same board,
\* scores, next_player, last_move and winner.
C16_WinnerIsTerminal ==
    game_state.winner # NoPlayer =>
        \A player \in Players :
            /\ \A position \in AnyCoordinates :
                  LET dropped == drop_bomb(game_state, position, player)
                  IN  /\ dropped.err # "Ok"
                      /\ dropped.state = game_state
            /\ \A side \in Sides, position \in AnyPositions :
                  LET dropped == drop_stone(game_state, player, side, position)
                  IN  /\ dropped.err # "Ok"
                      /\ dropped.state = game_state

\* Alice has won and a stone dropped after that has been refused.
C16_Witness ==
    /\ game_state.winner = ALICE
    /\ call.op = "drop_stone"
    /\ result = "GameAlreadyFinished"
    /\ game_state.last_move = LastMove_new(ALICE, "South", 9)

\* -------------------------------------------------------------------- C17
\* The last transition was a SacrificeInto that returned its output list.
SacrificedInto == outcome.action = "SacrificeInto" /\ outcome.err = Ok

\* The target of the last SacrificeInto as stored before the call, and as
\* carried by the Mutated output.
TargetBefore == outcome.before.assets[outcome.into]
TargetMutated == outcome.outputs[2].asset

\* The jump of the last SacrificeInto is applied: it is positive and does
\* not take the target beyond the sixteenth generation.
JumpApplies ==
    outcome.jump > 0 /\ TargetBefore.generation + outcome.jump <= 16

\* C17: a successful SacrificeInto emits Mutated(into, asset) where the
\* generation of asset is the old generation of the target plus the jump
\* when the jump is positive and the sum is at most 16, and the old
\* generation otherwise; it is never above 16.
C17_GenerationAdvances ==
    SacrificedInto =>
        /\ outcome.outputs[2].kind = "Mutated"
        /\ outcome.outputs[2].id = outcome.into
        /\ TargetMutated.generation =
              IF JumpApplies
              THEN TargetBefore.generation + outcome.jump
              ELSE TargetBefore.generation
        /\ TargetMutated.generation <= 16

\* -------------------------------------------------------------------- C18
\* Escrow of an asset and balance of an account before the last transition.
FundsBefore(asset_id) == outcome.before.funds[asset_id]
BalanceBefore(account) == outcome.before.balances[account]

\* After the last transition the escrow of the donor is empty, the escrow
\* of the target has gained what the donor held, and the owner's balance is
\* what it was.
Drained ==
    /\ host.funds[outcome.mogwai] = 0
    /\ host.funds[outcome.into] =
          FundsBefore(outcome.into) + FundsBefore(outcome.mogwai)
    /\ host.balances[outcome.account] = BalanceBefore(outcome.account)

\* C18: after a successful SacrificeInto whose jump is positive and keeps
\* the target within 16 generations, the donor's escrow is zero, the
\* target's escrow has gained exactly the donor's previous balance, and the
\* owner's account balance is unchanged.
C18_SacrificeConservation == (SacrificedInto /\ JumpApplies) => Drained

\* The same between two different mogwais.
ConservationBetweenTwo ==
    (SacrificedInto /\ JumpApplies /\ outcome.mogwai # outcome.into) => Drained

\* A donor with a paid escrow was drained into another mogwai.
DrainedIntoAnother ==
    /\ SacrificedInto /\ JumpApplies /\ outcome.mogwai # outcome.into
    /\ FundsBefore(outcome.mogwai) > 0

\* -------------------------------------------------------------------- C19
\* C19: when a transition returns an error, no balance operation issued by
\* that transition (a deposit to or a withdrawal from an asset escrow) has
\* succeeded, whichever host call was refused.
C19_FailureMovesNothing == outcome.err # Ok => outcome.moved = <<>>

\* -------------------------------------------------------------------- C20
\* The caller owns a mogwai under the id.
OwnsMogwai(account, mogwai_id) ==
    /\ host.assets[mogwai_id] # NoAsset
    /\ host.owners[mogwai_id] = account
    /\ is_mogwai(host.assets[mogwai_id])

\* Blocks since the asset under the id was minted.
Elapsed(mogwai_id) == host.height - host.assets[mogwai_id].genesis

\* What Hatch returns in the current store, for every caller, id and draw.
HatchContract ==
    \A account \in Accounts, mogwai_id \in MogIds,
       dna \in SegmentedDnas, rarity \in BakedRarities :
        LET returned == hatch_mogwai(host, account, mogwai_id, dna, rarity)
            asset == host.assets[mogwai_id]
            output == returned.outputs[1]
        IN  /\ returned.err = Ok <=>
                  /\ OwnsMogwai(account, mogwai_id)
                  /\ asset.phase = Bred
                  /\ Elapsed(mogwai_id) >= 100
            /\ (/\ OwnsMogwai(account, mogwai_id)
                /\ asset.phase = Bred
                /\ Elapsed(mogwai_id) < 100)
                   => returned.err = Transition(ASSET_COULD_NOT_RECEIVE_FUNDS)
            /\ (OwnsMogwai(account, mogwai_id) /\ asset.phase # Bred)
                   => returned.err = Transition(MOGWAI_NOT_IN_BRED_PHASE)
            /\ returned.err = Ok =>
                  /\ Len(returned.outputs) = 1
                  /\ output.kind = "Mutated"
                  /\ output.id = mogwai_id
                  /\ output.asset.id = asset.id
                  /\ output.asset.phase = Hatched
                  /\ output.asset.genesis = asset.genesis
                  /\ output.asset.generation = asset.generation
            /\ returned.moved = <<>>

\* A step leaves no mogwai that has left the Bred phase in it again, and a
\* Hatch that succeeds takes its mogwai out of it.
HatchedForGood ==
    /\ \A mogwai_id \in MogIds :
          (/\ is_mogwai(host.assets[mogwai_id])
           /\ host.assets[mogwai_id].phase # Bred
           /\ is_mogwai(host'.assets[mogwai_id]))
              => host'.assets[mogwai_id].phase # Bred
    /\ (outcome'.action = "Hatch" /\ outcome'.err = Ok)
          => /\ host.assets[outcome'.mogwai].phase = Bred
             /\ host'.assets[outcome'.mogwai].phase = Hatched

\* C20: Hatch succeeds exactly when the caller owns the mogwai, it is in
\* phase Bred and at least 100 blocks have passed since its genesis.  Before
\* that (at 99 blocks) it fails with code 100; at 100 blocks it returns one
\* Mutated output with the same id, phase Hatched, and the genesis and
\* generation unchanged; a mogwai not in phase Bred fails with code 7, and
\* no mogwai comes back to phase Bred, so it is hatched at most once.
C20_HatchOnce == []HatchContract /\ [][HatchedForGood]_vars

\* A mogwai was hatched exactly 100 blocks after its genesis, one block
\* after the store in which the same call failed on the timer.
C20_Witness ==
    /\ outcome.action = "Hatch"
    /\ outcome.err = Ok
    /\ outcome.before.height - outcome.before.assets[outcome.mogwai].genesis = 100
    /\ host.assets[outcome.mogwai].phase = Hatched

\* -------------------------------------------------------------------- C28
\* The sum of the last update, as a number.
Progress == achievement.before.current + achievement.amount

\* C28: update(n) and increase_by(n) on InProgress{current, target} return
\* Completed when current + n >= target and InProgress{current + n, target}
\* otherwise, for every n up to 65535, with no wrap-around and no overflow
\* failure; current never decreases and Completed stays Completed.
C28_ProgressSaturates ==
    achievement.op \in {"update", "increase_by"} =>
        IF achievement.before.kind = "InProgress"
        THEN /\ achievement.state =
                   IF Progress >= achievement.before.target
                   THEN Completed
                   ELSE AchievementState_InProgress(Progress, achievement.before.target)
             /\ achievement.state.kind = "InProgress"
                   => achievement.state.current >= achievement.before.current
        ELSE achievement.state = Completed

\* The same of increase_by alone.
IncreaseBySaturates == achievement.op = "increase_by" => C28_ProgressSaturates

\* -------------------------------------------------------------------- C21
\* The achievement tables an account owned before the last transition.
TablesBefore(account) ==
    { asset_id \in DOMAIN outcome.before.assets :
        /\ is_achievement(outcome.before.assets[asset_id])
        /\ outcome.before.owners[asset_id] = account }

\* The outputs of the last transition, as a set.
Outputs == { outcome.outputs[i] : i \in 1 .. Len(outcome.outputs) }

\* C21: a successful Hatch returns, besides Mutated(mogwai), an output
\* Mutated(table_id, new_asset) for the caller's achievement table in which
\* egg_hatcher is update(old egg_hatcher, 1).
C21_HatchCountsEgg ==
    (outcome.action = "Hatch" /\ outcome.err = Ok) =>
        \A table_id \in TablesBefore(outcome.account) :
            \E output \in Outputs :
                /\ output.kind = "Mutated"
                /\ output.id = table_id
                /\ is_achievement(output.asset)
                /\ output.asset.table.egg_hatcher =
                      update(outcome.before.assets[table_id].table.egg_hatcher,
                             1, TRUE)

\* -------------------------------------------------------------------- C22
\* C22: every mogwai is minted in phase Bred, and a Mutated output for a
\* stored mogwai carries a phase that is not before the stored one in
\* Bred < Hatched < Matured < Mastered < Exalted.
C22_PhaseNeverRegresses ==
    \A output \in Outputs :
        /\ (output.kind = "Minted" /\ is_mogwai(output.asset))
              => output.asset.phase = Bred
        /\ (output.kind = "Mutated" /\ is_mogwai(output.asset))
              => /\ is_mogwai(outcome.before.assets[output.id])
                 /\ output.asset.phase >= outcome.before.assets[output.id].phase
                 /\ output.asset.phase >= Bred

\* A mogwai minted by CreateMogwai or Breed in an earlier call has been
\* moved forward by a Mutated output.
C22_Witness ==
    \E output \in Outputs :
        /\ output.kind = "Mutated"
        /\ is_mogwai(output.asset)
        /\ output.asset.phase > outcome.before.assets[output.id].phase
        /\ \E other \in DOMAIN host.assets :
              /\ is_mogwai(host.assets[other])
              /\ host.assets[other].phase = Bred

\* -------------------------------------------------------------------- C23
\* The achievement tables of an account in the store.
TablesOf(account) ==
    { asset_id \in DOMAIN host.assets :
        /\ is_achievement(host.assets[asset_id])
        /\ host.owners[asset_id] = account }

\* What RegisterPlayer returns in the current store, for every caller and
\* every id the host may draw.
RegisterContract ==
    \A account \in Accounts, table_id \in DOMAIN host.assets :
        LET returned == register_player(host, account, table_id)
            minted == returned.outputs[1].asset
        IN  IF TablesOf(account) # {}
            THEN /\ returned.err = Transition(PLAYER_ALREADY_HAS_ACHIEVEMENT_TABLE)
                 /\ returned.outputs = <<>>
            ELSE /\ returned.err = Ok
                 /\ Len(returned.outputs) = 1
                 /\ returned.outputs[1].kind = "Minted"
                 /\ is_achievement(minted)
                 /\ minted.genesis = host.height
                 /\ minted.table.egg_hatcher =
                       AchievementState_InProgress(0, host.config.target_egg_hatcher)
                 /\ minted.table.sacrificer =
                       AchievementState_InProgress(0, host.config.target_sacrificer)
                 /\ minted.table.morpheus =
                       AchievementState_InProgress(0, host.config.target_morpheus)
                 /\ minted.table.legend_breeder =
                       AchievementState_InProgress(0, host.config.target_legend_breeder)
                 /\ minted.table.promiscuous =
                       AchievementState_InProgress(0, host.config.target_promiscuous)

\* C23: in every store an account owns at most one achievement table;
\* RegisterPlayer fails with code 2 when the caller owns one and otherwise
\* returns exactly one Minted achievement table, its five states
\* InProgress{0, configured target} and its genesis the current height; no
\* other transition mints an achievement table.
C23_OneTablePerPlayer ==
    /\ \A account \in Accounts : Cardinality(TablesOf(account)) <= 1
    /\ RegisterContract
    /\ outcome.action # "RegisterPlayer"
          => \A output \in Outputs :
                ~(output.kind = "Minted" /\ is_achievement(output.asset))

\* RegisterPlayer has minted the table of an account that holds a mogwai as
\* well, and the other account has none yet.
C23_Witness ==
    /\ outcome.action = "RegisterPlayer"
    /\ outcome.err = Ok
    /\ TablesOf(outcome.account) # {}
    /\ mogwai_count(host, outcome.account) > 0
    /\ \E account \in Accounts : TablesOf(account) = {}

\* -------------------------------------------------------------------- C24
\* The mogwais of an account in the store.
MogwaisOf(account) ==
    { asset_id \in DOMAIN host.assets :
        /\ host.assets[asset_id] # NoAsset
        /\ host.assets[asset_id].variant = "Mogwai"
        /\ host.owners[asset_id] = account }

\* The account owns more mogwais than the configuration allows.
OverLimit(account) == Cardinality(MogwaisOf(account)) > host.config.max_mogwais

\* C24: CreateMogwai fails with code 1 exactly when the caller owns more
\* than max_mogwais mogwais, achievement tables not counted, and otherwise
\* returns exactly one Minted mogwai; Breed makes the same test of the caller
\* before it mints the child.
C24_MogwaiLimit ==
    /\ \A account \in Accounts, mogwai_id \in DOMAIN host.assets,
          next \in CreatedGens, final_dna \in PairedDnas :
          LET returned == create_mogwai(host, account, mogwai_id, next, final_dna)
          IN  IF OverLimit(account)
              THEN /\ returned.err = Transition(MOGWAI_LIMIT_REACHED)
                   /\ returned.outputs = <<>>
              ELSE /\ returned.err = Ok
                   /\ Len(returned.outputs) = 1
                   /\ returned.outputs[1].kind = "Minted"
                   /\ is_mogwai(returned.outputs[1].asset)
    /\ \A account \in Accounts, mogwai_id_1 \in DOMAIN host.assets,
          mogwai_id_2 \in DOMAIN host.assets, mogwai_id \in DOMAIN host.assets,
          next \in BredGens, final_dna \in PairedDnas,
          deposit_accepted \in BOOLEAN :
          LET returned == breed_mogwais(host, account, mogwai_id_1, mogwai_id_2,
                                        mogwai_id, next, final_dna,
                                        deposit_accepted)
          IN  OverLimit(account) =>
                  /\ returned.outputs = <<>>
                  /\ returned.moved = <<>>
                  /\ mogwai_id_1 # mogwai_id_2
                        => returned.err = Transition(MOGWAI_LIMIT_REACHED)

\* CreateMogwai has given an account that holds an achievement table a
\* mogwai, and an account is over the limit.
C24_Witness ==
    /\ outcome.action = "CreateMogwai"
    /\ outcome.err = Ok
    /\ TablesOf(outcome.account) # {}
    /\ \E account \in Accounts : OverLimit(account)

\* -------------------------------------------------------------------- C25
\* Escrow balances tried under a sacrificed mogwai.
EscrowFunds == {0, 4, 5, 7, 10, 200}

\* The store with the mogwai under the id in the given phase and with the
\* given escrow.
StoreWith(mogwai_id, phase, funds) ==
    [host EXCEPT !.assets[mogwai_id].phase = phase, !.funds[mogwai_id] = funds]

\* amount is the whole part of funds / price, and nothing when price is 0.
IsFloorOf(amount, funds, price) ==
    IF price = 0
    THEN amount = 0
    ELSE amount * price <= funds /\ funds < (amount + 1) * price

\* C25: Sacrifice of a mogwai of the caller fails with code 6 in phase Bred
\* and moves nothing; in any other phase it withdraws exactly
\* floor(escrow / intrinsic_return(phase)) from the escrow to the owner (0
\* when intrinsic_return(phase) is 0, with no division error), never more
\* than the escrow, and returns exactly [Consumed(mogwai)].
C25_SacrificePaysIntrinsic ==
    \A account \in Accounts :
        \A mogwai_id \in MogwaisOf(account) :
            \A phase \in PhaseTypes, funds \in EscrowFunds :
                LET store == StoreWith(mogwai_id, phase, funds)
                    returned == sacrifice_mogwai(store, account, mogwai_id, TRUE)
                    refused == sacrifice_mogwai(store, account, mogwai_id, FALSE)
                    amount == returned.moved[1].amount
                IN  IF phase = Bred
                    THEN /\ returned.err = Transition(MOGWAI_STILL_IN_BRED_PHASE)
                         /\ returned.moved = <<>>
                         /\ returned.host = store
                         /\ refused = returned
                    ELSE /\ returned.err = Ok
                         /\ returned.outputs = << Consumed(mogwai_id) >>
                         /\ returned.moved = << Withdrawn(mogwai_id, account, amount) >>
                         /\ IsFloorOf(amount, funds, intrinsic_return(phase))
                         /\ amount <= funds
                         /\ returned.host.funds[mogwai_id] = funds - amount
                         /\ returned.host.balances[account] =
                               store.balances[account] + amount
                         /\ refused.err = Transition(ASSET_COULD_NOT_WITHDRAW_FUNDS)
                         /\ refused.moved = <<>>

\* A hatched mogwai with a paid escrow was sacrificed: a fifth of the escrow
\* went to its owner and the mogwai is gone.
C25_Witness ==
    /\ outcome.action = "Sacrifice"
    /\ outcome.err = Ok
    /\ FundsBefore(outcome.mogwai) > 0
    /\ host.funds[outcome.mogwai] < FundsBefore(outcome.mogwai)
    /\ host.balances[outcome.account] > BalanceBefore(outcome.account)
    /\ host.assets[outcome.mogwai] = NoAsset

\* -------------------------------------------------------------------- C26
\* Ids a call may name: those of the store and one the store never held.
AnyIds == DOMAIN host.assets \cup {0}

\* C26: Breed with mogwai_1 = mogwai_2 fails with code 5 whoever owns the
\* asset, whether it exists, whatever its phase and however many mogwais
\* the caller holds; nothing is drawn and no balance is moved, so the result
\* does not depend on what the host would draw or accept.
C26_BreedWithItself ==
    \A account \in Accounts, mogwai_id_1 \in AnyIds, mogwai_id \in AnyIds,
       next \in BredGens, final_dna \in PairedDnas, deposit_accepted \in BOOLEAN :
        breed_mogwais(host, account, mogwai_id_1, mogwai_id_1, mogwai_id, next,
                      final_dna, deposit_accepted)
            = Returned(Transition(CANNOT_USE_SAME_ASSET_FOR_BREEDING), <<>>,
                       host, <<>>)

\* A store in which the same call is made by an account over the limit, by
\* an owner of a hatched mogwai under the limit, and on an egg.
C26_Witness ==
    /\ \E account \in Accounts : OverLimit(account)
    /\ \E account \in Accounts :
          /\ ~OverLimit(account)
          /\ \E mogwai_id \in MogwaisOf(account) :
                host.assets[mogwai_id].phase = Hatched
    /\ \E mogwai_id \in DOMAIN host.assets :
          is_mogwai(host.assets[mogwai_id]) /\ host.assets[mogwai_id].phase = Bred
    /\ C26_BreedWithItself

\* -------------------------------------------------------------------- C27
\* The asset under the id is a mogwai that has left the Bred phase.
GrownMogwai(asset_id) ==
    /\ asset_id \in DOMAIN host.assets
    /\ host.assets[asset_id] # NoAsset
    /\ host.assets[asset_id].variant = "Mogwai"
    /\ host.assets[asset_id].phase # Bred

\* The asset under the id is an egg.
Egg(asset_id) ==
    /\ asset_id \in DOMAIN host.assets
    /\ host.assets[asset_id] # NoAsset
    /\ host.assets[asset_id].variant = "Mogwai"
    /\ host.assets[asset_id].phase = Bred

\* What Breed of two different ids returns in the current store.
BreedContract(account, mogwai_id_1, mogwai_id_2, mogwai_id, next, final_dna, deposit_accepted) ==
    LET returned == breed_mogwais(host, account, mogwai_id_1, mogwai_id_2,
                                  mogwai_id, next, final_dna, deposit_accepted)
        owned == mogwai_id_1 \in MogwaisOf(account)
        valid == /\ ~OverLimit(account)
                 /\ owned
                 /\ GrownMogwai(mogwai_id_1)
                 /\ GrownMogwai(mogwai_id_2)
        price == pairing(host.assets[mogwai_id_1].rarity,
                         host.assets[mogwai_id_2].rarity)
        paid == deposit_accepted /\ host.balances[account] >= price
        child == returned.outputs[1].asset
    IN  /\ returned.err = Ok <=> (valid /\ paid)
        /\ (/\ ~OverLimit(account)
            /\ \/ mogwai_id_1 \notin DOMAIN host.assets
               \/ host.assets[mogwai_id_1] = NoAsset
               \/ host.owners[mogwai_id_1] # account)
              => returned.err = AssetOwnership
        /\ (/\ ~OverLimit(account)
            /\ owned
            /\ Egg(mogwai_id_1) \/ (GrownMogwai(mogwai_id_1) /\ Egg(mogwai_id_2)))
              => returned.err = Transition(MOGWAI_STILL_IN_BRED_PHASE)
        /\ ~valid => (returned.moved = <<>> /\ returned.host = host)
        /\ (valid /\ ~paid) =>
              /\ returned.err = Transition(ASSET_COULD_NOT_RECEIVE_FUNDS)
              /\ returned.moved = <<>>
              /\ returned.host = host
        /\ returned.err = Ok =>
              /\ returned.moved = << Deposited(mogwai_id_2, account, price) >>
              /\ returned.host.funds[mogwai_id_2] = host.funds[mogwai_id_2] + price
              /\ returned.host.balances[account] = host.balances[account] - price
              /\ Len(returned.outputs) = 1
              /\ returned.outputs[1].kind = "Minted"
              /\ is_mogwai(child)
              /\ child.id = mogwai_id
              /\ child.phase = Bred
              /\ child.genesis = host.height
              /\ child.generation = next.next_gen
              /\ child.rarity = next.rarity

\* C27: Breed succeeds only if the caller owns the first mogwai (else
\* AssetOwnership), whoever owns the second, and both are mogwais out of the
\* Bred phase (else code 6); it then deposits pairing(rarity_1, rarity_2)
\* from the caller into the escrow of the second mogwai, once and after all
\* validations, and returns the single output Minted(child), the child in
\* phase Bred with genesis the current height and the generation and rarity
\* next_gen returned; no parent is mutated or consumed.
C27_BreedPaysAndMints ==
    \A account \in Accounts, mogwai_id_1 \in AnyIds, mogwai_id_2 \in AnyIds,
       mogwai_id \in DOMAIN host.assets, next \in BredGens,
       final_dna \in PairedDnas, deposit_accepted \in BOOLEAN :
        mogwai_id_1 # mogwai_id_2 =>
            BreedContract(account, mogwai_id_1, mogwai_id_2, mogwai_id, next,
                          final_dna, deposit_accepted)

\* A caller has bred its mogwai with a mogwai of the other account: the
\* price is in the escrow of that mogwai, the child is stored as an egg of
\* the caller, and both parents are stored as they were.
C27_Witness ==
    /\ outcome.action = "Breed"
    /\ outcome.err = Ok
    /\ host.owners[outcome.into] # outcome.account
    /\ host.funds[outcome.into] > FundsBefore(outcome.into)
    /\ host.balances[outcome.account] < BalanceBefore(outcome.account)
    /\ host.assets[outcome.mogwai] = outcome.before.assets[outcome.mogwai]
    /\ host.assets[outcome.into] = outcome.before.assets[outcome.into]
    /\ host.owners[outcome.outputs[1].id] = outcome.account
    /\ host.assets[outcome.outputs[1].id].phase = Bred

\* -------------------------------------------------------------------- C30
\* Two 2x2 windows (by top-left corner) share no cell.
Disjoint(corner, other) ==
    \/ corner[1] - other[1] >= 2
    \/ other[1] - corner[1] >= 2
    \/ corner[2] - other[2] >= 2
    \/ other[2] - corner[2] >= 2

\* Stones of the player index form three 2x2 squares that share no cell.
ThreeDisjointSquares(board, index) ==
    \E first \in Windows(board, index), second \in Windows(board, index),
       third \in Windows(board, index) :
        /\ Disjoint(first, second)
        /\ Disjoint(first, third)
        /\ Disjoint(second, third)

\* C30: a player is the winner only when their stones form three pairwise
\* disjoint 2x2 squares; 2x2 windows that overlap, such as the three windows
\* of a 2x4 rectangle of one player's stones, make no winner.
C30_WinnerByDisjointSquares ==
    \A index \in PlayerIndexes :
        game_state.winner = game_state.players[index + 1] =>
            ThreeDisjointSquares(game_state.board, index)

\* ============================================ Dot4Gravity, commit and reveal
\* The variant of the engine in which a bomb is committed by a hash during
\* the bomb phase and revealed by a separate transition.  Its state and its
\* two transitions are modelled from the specification of the variant; the
\* explosion, the scores and drop_stone are those of the engine above.

\* BombState: the placement status of one bomb of a player.
NotPlaced == [kind |-> "NotPlaced", hash |-> -1, secret |-> -1]
Placed(committed, secret) == [kind |-> "Placed", hash |-> committed, secret |-> secret]
Detonated == [kind |-> "Detonated", hash |-> -1, secret |-> -1]

\* The hash of coordinates and a secret.  The specification names no
\* function; this one mixes its three arguments into 16 bits, so that it is
\* neither the identity nor injective: two different pairs of coordinates
\* and secret can have one hash.
hash(coords, secret) ==
    (31 * (coords[1] * BOARD_WIDTH + coords[2]) + secret) % MODULUS

\* The new game of the variant: bombs holds, for each player, the status of
\* each of the NUM_OF_BOMBS_PER_PLAYER bombs.
new_reveal_game(player1, player2, seed) ==
    [new_game(player1, player2, seed) EXCEPT
        !.bombs = << <<player1, [slot \in 1 .. NUM_OF_BOMBS_PER_PLAYER |-> NotPlaced]>>,
                     <<player2, [slot \in 1 .. NUM_OF_BOMBS_PER_PLAYER |-> NotPlaced]>> >>]

\* The bomb slots of the player.
bomb_slots(game, player) ==
    game.bombs[player_index(game, player) + 1][2]

\* The slots (by index) of the player in the given status.
slots_in(game, player, status) ==
    {slot \in 1 .. NUM_OF_BOMBS_PER_PLAYER :
        bomb_slots(game, player)[slot] = status}

\* The least index of a non-empty set of slots.
first_slot(slots) == CHOOSE slot \in slots : \A other \in slots : slot <= other

\* The state with one slot of the player replaced.
with_slot(game, player, slot, status) ==
    [game EXCEPT !.bombs[player_index(game, player) + 1][2][slot] = status]

\* Every bomb of every player has been placed.
is_all_bomb_placed(game) ==
    \A i \in DOMAIN game.bombs, slot \in 1 .. NUM_OF_BOMBS_PER_PLAYER :
        game.bombs[i][2][slot] # NotPlaced

\* Drop bomb of the variant: in the bomb phase of a game without a winner,
\* a player with a bomb left stores Placed(hash(coords, secret), secret) in
\* its first free slot; the board is not modified; the phase becomes Play
\* with the last bomb placed.
place_bomb(game, coords, secret, player) ==
    IF game.phase # "Bomb"
    THEN Result("DroppedBombOutsideBombPhase", game)
    ELSE IF game.winner # NoPlayer
    THEN Result("GameAlreadyFinished", game)
    ELSE IF slots_in(game, player, NotPlaced) = {}
    THEN Result("NoMoreBombsAvailable", game)
    ELSE LET slot == first_slot(slots_in(game, player, NotPlaced))
             placed == with_slot(game, player, slot,
                                 Placed(hash(coords, secret), secret))
         IN  Result("Ok", IF is_all_bomb_placed(placed)
                          THEN [placed EXCEPT !.phase = "Play"]
                          ELSE placed)

\* detonate accepting the reveal when its hash is the hash of a Placed slot,
\* whatever the secret stored with it.
detonate_by_hash(game, coords, secret, player) ==
    LET matching == {slot \in 1 .. NUM_OF_BOMBS_PER_PLAYER :
                        /\ bomb_slots(game, player)[slot].kind = "Placed"
                        /\ bomb_slots(game, player)[slot].hash
                              = hash(coords, secret)}
    IN  IF game.winner # NoPlayer
        THEN Result("GameAlreadyFinished", game)
        ELSE IF matching = {}
        THEN Result("InvalidBombPosition", game)
        ELSE Result("Ok", stone_exploded(
                            with_slot(game, player, first_slot(matching),
                                      Detonated),
                            player, coords))

\* Detonation: the reveal (coords, secret) is hashed and looked up among the
\* Placed slots of the caller; without a match the call fails with
\* InvalidBombPosition; with one, the slot becomes Detonated and the
\* explosion is applied at coords.
detonate(game, coords, secret, player) ==
    LET matching == slots_in(game, player,
                             Placed(hash(coords, secret), secret))
    IN  IF game.winner # NoPlayer
        THEN Result("GameAlreadyFinished", game)
        ELSE IF matching = {}
        THEN Result("InvalidBombPosition", game)
        ELSE Result("Ok", stone_exploded(
                            with_slot(game, player, first_slot(matching),
                                      Detonated),
                            player, coords))

\* ------------------------------------------------- commit and reveal: runs
\* Coordinates and secrets of the bombs placed and revealed: the cell and
\* the secrets 19 and 23 of the specification's scenario, and a second cell
\* and secret with hash(<<4, 3>>, 50) = hash(<<4, 4>>, 19).
RevealCoords == { <<4, 4>>, <<4, 3>> }
Secrets == {19, 23, 50}
PlaceInputs == { << <<4, 4>>, 19 >>, << <<4, 3>>, 50 >> }

\* The reveals made: those of the bombs placed, and the cell (4, 4) with
\* the secret 23.
RevealInputs == PlaceInputs \cup { << <<4, 4>>, 23 >> }

\* The side and position of the stones dropped: they stop next to the cell
\* (4, 4), on the cells (5, 4) and (5, 3) before the block at (5, 5).
RevealStoneInputs == { <<"West", 5>> }

RevealCall(op, player, coords, secret) ==
    [op |-> op, player |-> player, coordinates |-> coords,
     side |-> "none", position |-> -1, secret |-> secret]

InitReveal ==
    /\ game_state = new_reveal_game(ALICE, BOB, NoSeed)
    /\ call = NoCall
    /\ result = "Ok"
    /\ moves = 0
    /\ creation = NoCreation
    /\ host = NoHost
    /\ outcome = NoOutcome
    /\ achievement = NoAchievement

PlaceBomb ==
    \E player \in Players, input \in PlaceInputs :
        LET returned == place_bomb(game_state, input[1], input[2], player)
        IN  /\ game_state' = returned.state
            /\ call' = RevealCall("place_bomb", player, input[1], input[2])
            /\ result' = returned.err
            /\ UNCHANGED <<moves, creation, host, outcome, achievement>>

Detonate ==
    \E player \in Players, input \in RevealInputs :
        LET returned == detonate(game_state, input[1], input[2], player)
        IN  /\ game_state' = returned.state
            /\ call' = RevealCall("detonate", player, input[1], input[2])
            /\ result' = returned.err
            /\ UNCHANGED <<moves, creation, host, outcome, achievement>>

RevealStone ==
    /\ moves < MaxMoves
    /\ \E player \in Players, input \in RevealStoneInputs :
        LET returned == drop_stone(game_state, player, input[1], input[2])
        IN  /\ returned.err = "Ok"
            /\ game_state' = returned.state
            /\ call' = StoneCall(player, input[1], input[2])
            /\ result' = returned.err
            /\ moves' = moves + 1
            /\ UNCHANGED <<creation, host, outcome, achievement>>

NextReveal == PlaceBomb \/ Detonate \/ RevealStone

SpecReveal == InitReveal /\ [][NextReveal]_vars

\* -------------------------------------------------------------------- C29
\* Some Placed(h, s) among the caller's bomb slots has hash(coords, s) = h
\* and s = secret.
Committed_to(game, player, coords, secret) ==
    \E slot \in 1 .. NUM_OF_BOMBS_PER_PLAYER :
        LET status == bomb_slots(game, player)[slot]
        IN  /\ status.kind = "Placed"
            /\ hash(coords, status.secret) = status.hash
            /\ secret = status.secret

\* The game after Alice placed a bomb with coords (4, 4) and secret 19.
ScenarioPlaced ==
    place_bomb(new_reveal_game(ALICE, BOB, NoSeed), <<4, 4>>, 19, ALICE).state

Lane(side, position) == {Path(side, position)[i] : i \in 1 .. BOARD_WIDTH}

\* The cells in which two boards differ.
Changed(board, other) ==
    {cell \in Rows \X Cols : CellAt(board, cell) # CellAt(other, cell)}

\* The drop has put one stone of the index in a cell of the lane that was
\* Empty, and changed no other cell.
PlacedOne(board, after, side, position, index) ==
    \E cell \in Lane(side, position) :
        /\ CellAt(board, cell) = Empty
        /\ CellAt(after, cell) = Stone(index)
        /\ Changed(board, after) = {cell}

\* The drop has detonated the bomb the stone met in the lane, the first cell
\* of the path that is not Empty, and has put no stone on the board.
DetonatedOne(board, after, side, position) ==
    LET first == FirstObstacle(board, side, position)
    IN  /\ first # 0
        /\ CellAt(board, Path(side, position)[first]).kind = "Bomb"
        /\ after = explode_bomb(board, Path(side, position)[first])
        /\ CellAt(after, Path(side, position)[first]) = Empty
        /\ \A cell \in Changed(board, after) : CellAt(after, cell) = Empty

\* C31: a stone never leaves the board and a drop never silently does
\* nothing: every drop_stone of the player in turn in a game in progress
\* that returns Ok has either placed exactly one new Stone(caller) in a cell
\* of the chosen row or column that was Empty, or detonated exactly one bomb
\* of that row or column; every such drop that neither places nor detonates
\* returns InvalidStonePosition and leaves the state as it was.
C31_DropPlacesOrDetonates ==
    InProgress =>
        \A side \in Sides, position \in AnyPositions :
            LET dropped == drop_stone(game_state, game_state.next_player, side, position)
                index == IndexOf(game_state.next_player)
            IN  /\ dropped.err \in {"Ok", "InvalidStonePosition"}
                /\ position \notin Positions => dropped.err = "InvalidStonePosition"
                /\ dropped.err = "Ok" =>
                      \/ PlacedOne(game_state.board, dropped.state.board,
                                   side, position, index)
                      \/ DetonatedOne(game_state.board, dropped.state.board,
                                      side, position)
                /\ dropped.err # "Ok" => dropped.state = game_state
                /\ dropped.state.board = game_state.board =>
                      dropped.err = "InvalidStonePosition"

\* The player in turn has dropped a stone from the west in row 9, where the
\* path is free up to a Stone in the far-edge cell: the drop returned
\* InvalidStonePosition and the board is as it was.
C31_Witness ==
    /\ InProgress
    /\ call = StoneCall(game_state.next_player, "West", 9)
    /\ result = "InvalidStonePosition"
    /\ FirstObstacle(game_state.board, "West", 9) = BOARD_WIDTH
    /\ game_state.board[9][9].kind = "Stone"

\* -------------------------------------------------------------------- C32
\* Cells aimed at by drop_bomb: those of the board and two beyond it.
AnyCells == (Rows \X Cols) \cup { <<BOARD_HEIGHT, 0>>, <<0, BOARD_WIDTH>> }

\* C32: over any sequence of calls from new_game each player completes at
\* most NUM_OF_BOMBS_PER_PLAYER successful drop_bomb calls and their
\* remaining count stays within 0..=3: a successful drop_bomb takes one from
\* a count that was at least 1; drop_bomb outside the Bomb phase fails with
\* DroppedBombOutsideBombPhase; in the Bomb phase, by a player with no bomb
\* left, it fails with NoMoreBombsAvailable; every failed drop_bomb
\* (InvalidBombPosition included) leaves the board and the counts unchanged.
C32_BombBudget ==
    /\ \A player \in Players :
          get_player_bombs(game_state, player) \in 0 .. NUM_OF_BOMBS_PER_PLAYER
    /\ \A player \in Players, position \in AnyCells :
          LET dropped == drop_bomb(game_state, position, player)
          IN  /\ game_state.phase # "Bomb" =>
                    dropped.err = "DroppedBombOutsideBombPhase"
              /\ (/\ game_state.phase = "Bomb"
                  /\ get_player_bombs(game_state, player) = 0) =>
                    dropped.err = "NoMoreBombsAvailable"
              /\ dropped.err # "Ok" =>
                    /\ dropped.state.board = game_state.board
                    /\ dropped.state.bombs = game_state.bombs
              /\ dropped.err = "Ok" =>
                    /\ get_player_bombs(game_state, player) >= 1
                    /\ get_player_bombs(dropped.state, player)
                          = get_player_bombs(game_state, player) - 1
                    /\ get_player_bombs(dropped.state, Other(player))
                          = get_player_bombs(game_state, Other(player))

\* A player who has dropped its three bombs, while the other has not, has
\* called drop_bomb again in the Bomb phase and got NoMoreBombsAvailable.
C32_Witness ==
    /\ call.op = "drop_bomb"
    /\ result = "NoMoreBombsAvailable"
    /\ game_state.phase = "Bomb"
    /\ get_player_bombs(game_state, call.player) = 0
    /\ get_player_bombs(game_state, Other(call.player)) > 0

\* -------------------------------------------------------------------- C33
\* Coordinates sampled by one new_game that are looked at.
MaxDraws == 12

\* The generator x -> (75 * x + 74) mod 65536, applied n times to x.
RECURSIVE Generated(_, _)
Generated(x, n) ==
    IF n = 0
    THEN x
    ELSE (75 * (Generated(x, n - 1) % 65536) + 74) % 65536

\* The k-th coordinate sampled from the seed: the row from the first of its
\* two steps, the column from the second, both mod 9.
Sampled(seed, k) ==
    << Generated(seed, 2 * k - 1) % 9, Generated(seed, 2 * k) % 9 >>

\* The game returned stores the seed after `draws` samples, has its blocks
\* on the sampled coordinates, and took its last sample for its last block.
ReturnedAfter(seed, draws) ==
    LET samples == {Sampled(seed, k) : k \in 1 .. draws}
    IN  /\ game_state.seed = Generated(seed, 2 * draws)
        /\ Cardinality(samples) = NUM_OF_BLOCKS
        /\ Sampled(seed, draws) \notin {Sampled(seed, k) : k \in 1 .. (draws - 1)}
        /\ \A row \in Rows, col \in Cols :
              game_state.board[row][col] = Block <=> <<row, col>> \in samples

\* C33: new_game is deterministic in its seed: the game returned for a seed
\* is the game another call with the same players and seed returns, board
\* and stored seed; the stored seed is the last value of the generator
\* x -> (75 * x + 74) mod 65536 after two steps per sampled coordinate (row
\* from the first step mod 9, column from the second mod 9, duplicates
\* rejected); for the default seed 123456 the stored seed is 46384.
C33_SeedDeterminism ==
    creation.returned =>
        LET seed == IF creation.given = NoSeed THEN INITIAL_SEED ELSE creation.given
        IN  /\ game_state = new_game(ALICE, BOB, creation.given)
            /\ \E draws \in NUM_OF_BLOCKS .. MaxDraws : ReturnedAfter(seed, draws)
            /\ seed = 123456 => game_state.seed = 46384

\* new_game has returned for the seed 42, after rejecting a coordinate it
\* had sampled before.
C33_Witness ==
    /\ creation.returned
    /\ creation.given = 42
    /\ \E draws \in (NUM_OF_BLOCKS + 1) .. MaxDraws : ReturnedAfter(42, draws)

\* -------------------------------------------------------------------- C35
\* A conversion of a number to a generation has been made.
Converted == call.op \in {"coerce_from", "from_u16", "from_u8"}

\* min(max(n, 1), 16)
Clamped(n) == IF n < 1 THEN 1 ELSE IF n > 16 THEN 16 ELSE n

\* C35 (as claimed): every integer-to-generation conversion saturates into
\* 1..=16: for all n in 0..=65535, coerce_from(n), MogwaiGeneration::from(n
\* as u16) and MogwaiGeneration::from(n as u8) return the generation with
\* value min(max(n, 1), 16).
C35_ConversionsSaturate ==
    Converted => result = Clamped(call.position)

\* C35 (amended): every conversion returns a generation in 1..=16;
\* coerce_from(n) returns the generation with value min(max(n, 1), 16);
\* MogwaiGeneration::from(n as u16) returns the generation with value n when
\* n is in 1..=16 and First otherwise; MogwaiGeneration::from(n as u8) does
\* so for n mod 256.
C35_CoerceSaturates ==
    Converted =>
        /\ result \in First .. Sixteenth
        /\ call.op = "coerce_from" => result = Clamped(call.position)
        /\ call.op = "from_u16" =>
              result = (IF call.position \in 1 .. 16 THEN call.position ELSE First)
        /\ call.op = "from_u8" =>
              result = (IF call.position % 256 \in 1 .. 16
                        THEN call.position % 256
                        ELSE First)

\* MogwaiGeneration::from(17 as u16) has returned First.
C35_Witness ==
    /\ call = ConversionCall("from_u16", 17)
    /\ result = First
    /\ coerce_from(17) = Sixteenth

\* -------------------------------------------------------------------- C34
\* The account owns an asset under the id.
Owns(account, asset_id) ==
    /\ asset_id \in DOMAIN host.assets
    /\ host.assets[asset_id] # NoAsset
    /\ host.owners[asset_id] = account

\* The account owns an achievement table under the id.
OwnsTable(account, asset_id) == asset_id \in TablesOf(account)

\* The account owns, under the id, a mogwai that SacrificeInto accepts as a
\* donor: out of the Bred phase and not Common.
OwnsDonor(account, asset_id) ==
    /\ asset_id \in MogwaisOf(account)
    /\ host.assets[asset_id].phase # Bred
    /\ host.assets[asset_id].rarity # Common

\* The transition has failed with the error, without an output, a balance
\* operation or a change of the store.
Refused(returned, err) == returned = Returned(err, <<>>, host, <<>>)

\* No output of the last transition consumes or mutates an achievement table.
TablesKept ==
    \A output \in Outputs :
        output.kind \in {"Consumed", "Mutated"} =>
            /\ output.id \in DOMAIN outcome.before.assets
            /\ ~is_achievement(outcome.before.assets[output.id])

\* C34 (as claimed): ownership is checked first: Hatch, Sacrifice and
\* SacrificeInto on an id the caller does not own return AssetOwnership,
\* never a Transition{code}; on an id the caller owns but which is an
\* achievement table they return Transition{code: 3}; in both cases nothing
\* is output and no balance is moved; no transition consumes or mutates an
\* achievement table.
C34_OwnershipCheckedFirst ==
    /\ TablesKept
    /\ \A account \in Accounts, asset_id \in AnyIds, dna \in SegmentedDnas,
          rarity \in BakedRarities, withdraw_accepted \in BOOLEAN :
          LET hatched == hatch_mogwai(host, account, asset_id, dna, rarity)
              sacrificed == sacrifice_mogwai(host, account, asset_id, withdraw_accepted)
          IN  /\ ~Owns(account, asset_id) =>
                    /\ Refused(hatched, AssetOwnership)
                    /\ Refused(sacrificed, AssetOwnership)
              /\ OwnsTable(account, asset_id) =>
                    /\ Refused(hatched, Transition(ASSET_IS_NOT_MOGWAI))
                    /\ Refused(sacrificed, Transition(ASSET_IS_NOT_MOGWAI))
    /\ \A account \in Accounts, asset_id \in AnyIds, other_id \in AnyIds,
          gen_jump \in Jumps, withdraw_accepted \in BOOLEAN,
          deposit_accepted \in BOOLEAN :
          LET from == sacrifice_mogwai_into(host, account, asset_id, other_id,
                          gen_jump, withdraw_accepted, deposit_accepted)
              into == sacrifice_mogwai_into(host, account, other_id, asset_id,
                          gen_jump, withdraw_accepted, deposit_accepted)
          IN  /\ ~Owns(account, asset_id) =>
                    /\ Refused(from, AssetOwnership)
                    /\ Refused(into, AssetOwnership)
              /\ OwnsTable(account, asset_id) =>
                    /\ Refused(from, Transition(ASSET_IS_NOT_MOGWAI))
                    /\ Owns(account, other_id) =>
                          Refused(into, Transition(ASSET_IS_NOT_MOGWAI))

\* C34 (amended): ownership is checked first for each id, in the order of
\* the arguments: Hatch, Sacrifice and SacrificeInto on a first id the caller
\* does not own return AssetOwnership, on a first id that is an achievement
\* table of the caller Transition{code: 3}; SacrificeInto looks at its
\* second id only after the donor has passed its tests, and then returns
\* AssetOwnership for a second id the caller does not own and code 3 for one
\* that is its table, while a donor in phase Bred gives code 6 and a Common
\* donor code 8 whatever the second id; whenever an id given is not owned or
\* is a table nothing is output and no balance is moved; no transition
\* consumes or mutates an achievement table.
C34_OwnershipPerArgument ==
    /\ TablesKept
    /\ \A account \in Accounts, asset_id \in AnyIds, dna \in SegmentedDnas,
          rarity \in BakedRarities, withdraw_accepted \in BOOLEAN :
          LET hatched == hatch_mogwai(host, account, asset_id, dna, rarity)
              sacrificed == sacrifice_mogwai(host, account, asset_id, withdraw_accepted)
          IN  /\ ~Owns(account, asset_id) =>
                    /\ Refused(hatched, AssetOwnership)
                    /\ Refused(sacrificed, AssetOwnership)
              /\ OwnsTable(account, asset_id) =>
                    /\ Refused(hatched, Transition(ASSET_IS_NOT_MOGWAI))
                    /\ Refused(sacrificed, Transition(ASSET_IS_NOT_MOGWAI))
    /\ \A account \in Accounts, asset_id \in AnyIds, other_id \in AnyIds,
          gen_jump \in Jumps, withdraw_accepted \in BOOLEAN,
          deposit_accepted \in BOOLEAN :
          LET from == sacrifice_mogwai_into(host, account, asset_id, other_id,
                          gen_jump, withdraw_accepted, deposit_accepted)
              into == sacrifice_mogwai_into(host, account, other_id, asset_id,
                          gen_jump, withdraw_accepted, deposit_accepted)
          IN  /\ ~Owns(account, asset_id) =>
                    /\ Refused(from, AssetOwnership)
                    /\ OwnsDonor(account, other_id) => Refused(into, AssetOwnership)
              /\ OwnsTable(account, asset_id) =>
                    /\ Refused(from, Transition(ASSET_IS_NOT_MOGWAI))
                    /\ OwnsDonor(account, other_id) =>
                          Refused(into, Transition(ASSET_IS_NOT_MOGWAI))
              /\ (~Owns(account, asset_id) \/ OwnsTable(account, asset_id)) =>
                    /\ into.err # Ok
                    /\ Refused(into, into.err)
                    /\ (other_id \in MogwaisOf(account)
                          /\ host.assets[other_id].phase = Bred) =>
                          Refused(into, Transition(MOGWAI_STILL_IN_BRED_PHASE))
                    /\ (other_id \in MogwaisOf(account)
                          /\ host.assets[other_id].phase # Bred
                          /\ host.assets[other_id].rarity = Common) =>
                          Refused(into, Transition(MOGWAI_HAS_INVALID_RARITY))

\* One account owns an achievement table and a mogwai that can be a donor,
\* and the other account owns a mogwai: SacrificeInto of the donor into the
\* table gives code 3, into the other's mogwai AssetOwnership, as do Hatch
\* and Sacrifice of the other's mogwai.
C34_Witness ==
    \E account \in Accounts, table_id \in DOMAIN host.assets,
       donor_id \in DOMAIN host.assets, foreign_id \in DOMAIN host.assets :
        /\ OwnsTable(account, table_id)
        /\ OwnsDonor(account, donor_id)
        /\ foreign_id \in MogwaisOf(CHOOSE other \in Accounts : other # account)
        /\ Refused(sacrifice_mogwai_into(host, account, donor_id, table_id, 1, TRUE, TRUE),
                   Transition(ASSET_IS_NOT_MOGWAI))
        /\ Refused(sacrifice_mogwai_into(host, account, donor_id, foreign_id, 1, TRUE, TRUE),
                   AssetOwnership)
        /\ Refused(hatch_mogwai(host, account, foreign_id, 2, Rare), AssetOwnership)
        /\ Refused(sacrifice_mogwai(host, account, foreign_id, TRUE), AssetOwnership)

\* ------------------------------------------------------------------ C36
\* Every result Generation::next_gen can hand to create_mogwai: a rarity,
\* a generation and a max_rarity (mod algorithm decides which of them occur).
NextGens ==
    [rarity : RarityTypes, next_gen : MogwaiGenerations, max_rarity : RarityTypes]

\* The low nibble of the byte create_mogwai forms from a result.
LowNibble(next) == (next.max_rarity * 16 + next.rarity) % 16

\* C36: in every store reached, for every owner under the limit, every fresh
\* id and every result (rarity, next_gen, max_rarity) of Generation::next_gen,
\* CreateMogwai mints one mogwai whose rarity is the RarityType of the low
\* nibble of (max_rarity << 4) | rarity, that is the rarity next_gen
\* returned, whatever max_rarity is.
C36_MintedRarityIsLowNibble ==
    \A account \in Accounts, mogwai_id \in FreshIds(host),
       next \in NextGens, final_dna \in PairedDnas :
        LET returned == create_mogwai(host, account, mogwai_id, next, final_dna)
        IN  returned.err = Ok =>
                /\ Len(returned.outputs) = 1
                /\ returned.outputs[1].kind = "Minted"
                /\ returned.outputs[1].asset.rarity = RarityType_from(LowNibble(next))
                /\ returned.outputs[1].asset.rarity = next.rarity

\* ------------------------------------------------------------------ C37
\* The cells of a board that are Block.
Blocks(board) == {cell \in Rows \X Cols : CellAt(board, cell) = Block}

\* The games new_game returns for the seeds the games explored start from.
NewGames == {new_game(ALICE, BOB, start[1]) : start \in Starts}

\* C37: the Block cells are fixed at the creation of the game: in every
\* state reached from new_game by drop_bomb and drop_stone calls, the cells
\* that are Block are those that were Block in the game new_game returned
\* (the one with the same stored seed), and no drop_bomb or drop_stone of
\* any player, from any side at any position, detonating or not, returns a
\* state with other Block cells.
C37_BlocksAreFixed ==
    /\ \E created \in NewGames : created.seed = game_state.seed
    /\ \A created \in NewGames :
          created.seed = game_state.seed =>
              Blocks(game_state.board) = Blocks(created.board)
    /\ \A player \in Players :
          /\ \A cell \in Rows \X Cols :
                Blocks(drop_bomb(game_state, cell, player).state.board)
                    = Blocks(game_state.board)
          /\ \A side \in Sides, position \in Positions :
                Blocks(drop_stone(game_state, player, side, position).state.board)
                    = Blocks(game_state.board)

\* The cells of the board a bomb at the cell reaches.
Reached(cell) ==
    {<<cell[1] + offsets[i][1], cell[2] + offsets[i][2]>> : i \in 1 .. Len(offsets)}
        \cap (Rows \X Cols)

\* A drop_stone has returned Ok and left no stone in its row or column: the
\* stone met a bomb and detonated it. The bomb had a Block within its
\* reach: every cell the bomb reached is now Empty, but for the Block, which
\* is still there.
C37_Witness ==
    /\ call.op = "drop_stone"
    /\ result = "Ok"
    /\ \A cell \in Lane(call.side, call.position) :
          CellAt(game_state.board, cell).kind # "Stone"
    /\ \E cell \in Lane(call.side, call.position) :
          /\ \A reached \in Reached(cell) :
                CellAt(game_state.board, reached) \in {Empty, Block}
          /\ \E reached \in Reached(cell) : CellAt(game_state.board, reached) = Block
          /\ \E created \in NewGames :
                /\ created.seed = game_state.seed
                /\ Blocks(created.board) = Blocks(game_state.board)
                /\ Blocks(created.board) \cap Reached(cell) # {}

\* ------------------------------------------------------------------ C38
\* C38: only the player who made the winning drop is declared winner, and
\* a winner appears only as the result of a successful drop_stone: in every
\* state reached from new_game by drop_bomb and drop_stone calls, if winner
\* is Some(p) then last_move is Some and last_move.player = p; no drop_bomb
\* changes the winner, and a drop_stone that changes it has returned Ok, is
\* the last move of the state it returns and was made by the new winner.
C38_WinnerMadeLastMove ==
    /\ game_state.winner # NoPlayer =>
          /\ game_state.last_move # NoMove
          /\ game_state.last_move.player = game_state.winner
    /\ \A player \in Players :
          /\ \A cell \in Rows \X Cols :
                drop_bomb(game_state, cell, player).state.winner = game_state.winner
          /\ \A side \in Sides, position \in Positions :
                LET dropped == drop_stone(game_state, player, side, position)
                IN  dropped.state.winner # game_state.winner =>
                        /\ dropped.err = "Ok"
                        /\ game_state.winner = NoPlayer
                        /\ dropped.state.winner = player
                        /\ dropped.state.last_move
                              = LastMove_new(player, side, position)

\* The drop_stone just made has returned Ok and its player is the winner:
\* the winner is the player of the last move, the move just made.
C38_Witness ==
    /\ call.op = "drop_stone"
    /\ result = "Ok"
    /\ game_state.winner = call.player
    /\ game_state.last_move = LastMove_new(call.player, call.side, call.position)

\* ------------------------------------------------------------------ C39
\* C39: no transition returns outputs that both consume and mutate the same
\* asset id: the outputs of every transition made never hold Consumed(x)
\* together with Mutated(x, _), and a SacrificeInto whose donor and target
\* are the same id is rejected.
C39_NoConsumedAndMutated ==
    /\ \A i \in DOMAIN outcome.outputs, j \in DOMAIN outcome.outputs :
          ~ /\ outcome.outputs[i].kind = "Consumed"
            /\ outcome.outputs[j].kind = "Mutated"
            /\ outcome.outputs[i].id = outcome.outputs[j].id
    /\ (outcome.action = "SacrificeInto" /\ outcome.mogwai = outcome.into) =>
          outcome.err # Ok

\* ------------------------------------------------------------------ C40
\* The asset of the store is a mogwai past the Bred phase.
PastBred(h, asset_id) ==
    /\ asset_id \in DOMAIN h.assets
    /\ h.assets[asset_id].variant = "Mogwai"
    /\ h.assets[asset_id].phase # Bred

\* The asset of the store was minted at least 100 blocks ago.
Aged(h, asset_id) == h.height - h.assets[asset_id].genesis >= 100

\* C40: with a block height that never decreases and the outputs of every
\* successful transition committed, every stored mogwai whose phase is not
\* Bred was minted at least 100 blocks before the current height; so every
\* mogwai a successful Breed took as a parent, a successful Sacrifice
\* consumed or a successful SacrificeInto took as donor or target was minted
\* at least 100 blocks before that transition.
C40_GrownMogwaisAreAged ==
    /\ \A asset_id \in DOMAIN host.assets :
          PastBred(host, asset_id) => Aged(host, asset_id)
    /\ (outcome.err = Ok /\ outcome.action \in {"Breed", "SacrificeInto"}) =>
          /\ PastBred(outcome.before, outcome.mogwai)
          /\ PastBred(outcome.before, outcome.into)
          /\ Aged(outcome.before, outcome.mogwai)
          /\ Aged(outcome.before, outcome.into)
    /\ (outcome.err = Ok /\ outcome.action = "Sacrifice") =>
          /\ PastBred(outcome.before, outcome.mogwai)
          /\ Aged(outcome.before, outcome.mogwai)

\* A Breed has just succeeded at height 100: its two parents were minted at
\* height 0 and hatched at height 100, and the child it minted is an egg
\* whose genesis is the current height.
C40_Witness ==
    /\ outcome.action = "Breed"
    /\ outcome.err = Ok
    /\ host.height = 100
    /\ PastBred(host, outcome.mogwai) /\ host.assets[outcome.mogwai].genesis = 0
    /\ PastBred(host, outcome.into) /\ host.assets[outcome.into].genesis = 0
    /\ \E asset_id \in DOMAIN host.assets :
          /\ host.assets[asset_id].variant = "Mogwai"
          /\ host.assets[asset_id].phase = Bred
          /\ host.assets[asset_id].genesis = 100

====
